---- MODULE Spec2Model ----
(***************************************************************************)
(* Stroke engine of VectorPen (src/app.js): the pointer-down/move/up state *)
(* machine, the live preview, the commit of pen strokes and erase masks,   *)
(* cancellation on multi-touch, clear, attach/detach and tool selection.  *)
(*                                                                         *)
(* Containers are DOM elements without an id attribute, so the engine      *)
(* keys its per-container maps by the synthetic id `vector-pen-<n>`; the   *)
(* model keeps only the number n of that key.                              *)
(* Path data is kept as a list of commands whose coordinates are stored    *)
(* doubled (2*x), so that the midpoints (x1+x2)/2 stay integers.           *)
(*                                                                         *)
(* Zoom engine PinchZoom (src/pinch-zoom.js): attach/detach, the wheel     *)
(* zoom, the pinch, snap-back and reset animations, presentation mode and  *)
(* the resize observers, with scales and offsets kept as exact fractions. *)
(***************************************************************************)
EXTENDS Integers, Sequences, FiniteSets, TLC

\* ---------------------------------------------------------------- bounds
\* points the engine may hold at once: the stroke in progress plus the
\* points of the committed records
MaxInk == 4

\* ------------------------------------------------------ program constants
StrokeWidth == 2
EraserWidth == 40
MinDistance == 2
StrokeColor == "#000000"

\* ----------------------------------------------------------- input sets
Containers == {"A", "B"}
\* the container the single-container behaviours are about
Main == {"A"}
Pointers == {1, 2}
Pos == {<<0, 0>>, <<1, 0>>, <<2, 0>>}
DownPos == {<<0, 0>>}
Tools == {"pen", "eraser"}
TouchCounts == {0, 1, 2}
Times == {0, 1}

NoTool == "null"
NoElement == "null"
NoPointer == 0
Stale == "detached-group"
TempMaskId == <<"temp-eraser-mask">>
NoMask == <<>>

\* elements .. touchCount are the fields of the engine; dom is the svg layer
\* of each container (defs, mask attribute and children of the drawing
\* group); downL / moveL tell whether the pointerdown and the
\* pointermove/up/cancel/leave listeners are installed on a container; ev is
\* the outcome of the last handler run that changed the state or threw:
\* "ok", "cancel", "accept", "throw", "commit", "release" or "clear";
\* options holds this.options.strokeColor, strokeWidth and eraserWidth;
\* fingers is the number of touch points on the screen, the length of
\* event.touches of the last touch event wherever it was dispatched
VARIABLES elements, activeElement, isDrawing, activeTool, points, paths,
          drawingGroups, activePointerId, touchCount,
          dom, downL, moveL, ev, options, fingers

\* the PinchZoom engine: pzElements is its this.elements, observers its
\* index-keyed observer table and attachedHandlers its WeakMap, both holding
\* the number of a closure; closures lists, in creation order, what each
\* _attachToElement call captured (the element, its elementState, and which
\* of its listeners and observer are still connected); zdom is the zoom
\* markup of each container (container class, presentation class, and for
\* each child the pinch-zoom-element class and the style transform); notes
\* are the CustomEvents dispatched by the last handler run that changed
\* something or threw and threw tells whether that run ended in an uncaught
\* error; zoomOptions is this.options, touchCache the engine's touch-pair
\* cache, animations the _animateToScale loops started so far
VARIABLES pzElements, observers, attachedHandlers, closures, zdom, notes,
          zoomOptions, touchCache, animations, threw

pen == <<elements, activeElement, isDrawing, activeTool, points, paths,
         drawingGroups, activePointerId, touchCount,
         dom, downL, moveL, ev, options, fingers>>

pz == <<pzElements, observers, attachedHandlers, closures, zdom, notes,
        zoomOptions, touchCache, animations, threw>>

vars == <<pen, pz>>

\* ------------------------------------------------------------ DOM nodes
PathNode(cls, stroke, width, d) ==
  [t |-> "path", cls |-> cls, stroke |-> stroke, width |-> width, d |-> d,
   mask |-> NoMask, kids |-> <<>>]

GroupNode(maskId, kids) ==
  [t |-> "g", cls |-> "", stroke |-> "", width |-> 0, d |-> <<>>,
   mask |-> maskId, kids |-> kids]

MaskNode(id, path) == [id |-> id, path |-> path]

PermanentMaskId(t) == <<"eraser-mask", t>>

EmptyLayer == [defs |-> <<>>, mask |-> NoMask, kids |-> <<>>]

\* querySelector('.cls') below a list of siblings: is there a match
RECURSIVE HasClass(_, _)
HasClass(kids, cls) ==
  \E i \in 1..Len(kids) : kids[i].cls = cls \/ HasClass(kids[i].kids, cls)

\* remove the first match in document order
RECURSIVE RemoveFirst(_, _)
RemoveFirst(kids, cls) ==
  IF kids = <<>> THEN <<>>
  ELSE LET h == Head(kids) IN
       IF h.cls = cls THEN Tail(kids)
       ELSE IF HasClass(h.kids, cls)
            THEN <<[h EXCEPT !.kids = RemoveFirst(h.kids, cls)]>> \o Tail(kids)
            ELSE <<h>> \o RemoveFirst(Tail(kids), cls)

\* setAttribute('d', d) on the first match in document order
RECURSIVE SetFirstD(_, _, _)
SetFirstD(kids, cls, d) ==
  IF kids = <<>> THEN <<>>
  ELSE LET h == Head(kids) IN
       IF h.cls = cls THEN <<[h EXCEPT !.d = d]>> \o Tail(kids)
       ELSE IF HasClass(h.kids, cls)
            THEN <<[h EXCEPT !.kids = SetFirstD(h.kids, cls, d)]>> \o Tail(kids)
            ELSE <<h>> \o SetFirstD(Tail(kids), cls, d)

\* number of elements below a list of siblings
RECURSIVE NodeCount(_)
NodeCount(kids) ==
  IF kids = <<>> THEN 0
  ELSE 1 + NodeCount(Head(kids).kids) + NodeCount(Tail(kids))

\* number of elements of a class / of mask-wrapper groups below a list
RECURSIVE ClassCount(_, _)
ClassCount(kids, cls) ==
  IF kids = <<>> THEN 0
  ELSE (IF Head(kids).cls = cls THEN 1 ELSE 0)
       + ClassCount(Head(kids).kids, cls) + ClassCount(Tail(kids), cls)

RECURSIVE WrapperCount(_)
WrapperCount(kids) ==
  IF kids = <<>> THEN 0
  ELSE (IF Head(kids).t = "g" THEN 1 ELSE 0)
       + WrapperCount(Head(kids).kids) + WrapperCount(Tail(kids))

\* ------------------------------------------------------ sequence helpers
IndexOf(seq, x) ==
  IF \E i \in 1..Len(seq) : seq[i] = x
  THEN CHOOSE i \in 1..Len(seq) : seq[i] = x
  ELSE 0

RemoveAt(seq, i) == [j \in 1..(Len(seq) - 1) |-> IF j < i THEN seq[j] ELSE seq[j + 1]]

Includes(seq, x) == \E i \in 1..Len(seq) : seq[i] = x

\* key of `element.id || vector-pen-${indexOf(element) + 1}` for an id-less
\* element: the 1-based position in this.elements, 0 when not in the list
KeyOf(el) == IF el = NoElement THEN 0 ELSE IndexOf(elements, el)

HasKey(k) == k \in DOMAIN drawingGroups

Drop(f, k) == [j \in (DOMAIN f) \ {k} |-> f[j]]

Put(f, k, v) == [j \in (DOMAIN f) \cup {k} |-> IF j = k THEN v ELSE f[j]]

\* ------------------------------------------------------------- smoothing
Cmd2_swapped(op, p) == <<op, 2 * p[2], 2 * p[1]>>

Cmd2(op, p) == <<op, 2 * p[1], 2 * p[2]>>

QCmd_endAtNext(p, q) == <<"Q", 2 * p[1], 2 * p[2], 2 * q[1], 2 * q[2]>>

QCmd(p, q) == <<"Q", 2 * p[1], 2 * p[2], p[1] + q[1], p[2] + q[2]>>

_generatePathData(pts) ==
  IF Len(pts) < 2 THEN <<>>
  ELSE <<Cmd2("M", pts[1])>>
       \o [i \in 1..(Len(pts) - 2) |-> QCmd(pts[i + 1], pts[i + 2])]
       \o <<Cmd2("L", pts[Len(pts)])>>

\* squared Euclidean distance; distance >= d  <=>  DistSq >= d*d
DistSq(p, q) == (p[1] - q[1]) * (p[1] - q[1]) + (p[2] - q[2]) * (p[2] - q[2])

FarEnough_halved(p, q) == 4 * DistSq(p, q) >= MinDistance * MinDistance

FarEnough(p, q) == DistSq(p, q) >= MinDistance * MinDistance

\* ------------------------------------------------------------ DOM access
HasLayer(el) == el # NoElement /\ Includes(elements, el)

\* drawingGroup.appendChild(node) on the group a key refers to
AppendKid_intoWrapper(dm, tgt, node) ==
  IF tgt = Stale THEN dm
  ELSE IF dm[tgt].kids # <<>> /\ dm[tgt].kids[1].t = "g"
       THEN [dm EXCEPT ![tgt].kids[1].kids = Append(@, node)]
       ELSE [dm EXCEPT ![tgt].kids = Append(@, node)]

AppendKid(dm, tgt, node) ==
  IF tgt = Stale THEN dm ELSE [dm EXCEPT ![tgt].kids = Append(@, node)]

SetGroupMask(dm, tgt, m) ==
  IF tgt = Stale THEN dm ELSE [dm EXCEPT ![tgt].mask = m]

SetKids_keepsOld(dm, tgt, kids) ==
  IF tgt = Stale THEN dm ELSE [dm EXCEPT ![tgt].kids = @ \o kids]

SetKids(dm, tgt, kids) ==
  IF tgt = Stale THEN dm ELSE [dm EXCEPT ![tgt].kids = kids]

KidsOf_none(dm, tgt) == <<>>

KidsOf(dm, tgt) == IF tgt = Stale THEN <<>> ELSE dm[tgt].kids

HasMaskId(defs, id) == \E i \in 1..Len(defs) : defs[i].id = id

RemoveMaskId(defs, id) ==
  IF HasMaskId(defs, id)
  THEN RemoveAt(defs, CHOOSE i \in 1..Len(defs) :
                        /\ defs[i].id = id
                        /\ \A j \in 1..(i - 1) : defs[j].id # id)
  ELSE defs

\* svg.querySelector('.temp-eraser-path'): it can only sit inside a mask
HasEraserPath(defs) ==
  \E i \in 1..Len(defs) : defs[i].path # <<>> /\ defs[i].path[1].cls = "temp-eraser-path"

EraserPathAt(defs) ==
  CHOOSE i \in 1..Len(defs) :
    /\ defs[i].path # <<>> /\ defs[i].path[1].cls = "temp-eraser-path"
    /\ \A j \in 1..(i - 1) : ~(defs[j].path # <<>> /\ defs[j].path[1].cls = "temp-eraser-path")

TempMaskAt(defs) ==
  CHOOSE i \in 1..Len(defs) :
    /\ defs[i].id = TempMaskId
    /\ \A j \in 1..(i - 1) : defs[j].id # TempMaskId

EraserPath(d) == [cls |-> "temp-eraser-path", width |-> options.eraserWidth, d |-> d]

\* ------------------------------------------------------------ cancelDrawing
\* state after cancelDrawing(): the first .temp-path of the active layer is
\* removed, the stroke state is reset, the move/up listeners are removed
cancelDrawing_keepsPoints ==
  IF ~isDrawing \/ activeElement = NoElement
  THEN [isDrawing |-> isDrawing, points |-> points,
        activePointerId |-> activePointerId, dom |-> dom, moveL |-> moveL]
  ELSE [isDrawing |-> FALSE, points |-> points, activePointerId |-> NoPointer,
        dom |-> IF HasLayer(activeElement)
                THEN [dom EXCEPT ![activeElement].kids = RemoveFirst(@, "temp-path")]
                ELSE dom,
        moveL |-> [moveL EXCEPT ![activeElement] = FALSE]]

cancelDrawing ==
  IF ~isDrawing \/ activeElement = NoElement
  THEN [isDrawing |-> isDrawing, points |-> points,
        activePointerId |-> activePointerId, dom |-> dom, moveL |-> moveL]
  ELSE [isDrawing |-> FALSE, points |-> <<>>, activePointerId |-> NoPointer,
        dom |-> IF HasLayer(activeElement)
                THEN [dom EXCEPT ![activeElement].kids = RemoveFirst(@, "temp-path")]
                ELSE dom,
        moveL |-> [moveL EXCEPT ![activeElement] = FALSE]]

\* ------------------------------------------------------------ _updateStroke
\* result of _updateStroke() for the point list pts: the new DOM and whether
\* the call threw (drawingGroups[id] undefined)
_updateStroke(pts) ==
  LET el == activeElement
      key == KeyOf(el)
      pd == _generatePathData(pts)
      own == dom[el]
  IN
  IF el = NoElement \/ Len(pts) < 2 \/ ~HasLayer(el) THEN [dom |-> dom, err |-> FALSE]
  ELSE IF activeTool = "pen" THEN
    IF HasClass(own.kids, "temp-path")
    THEN [dom |-> [dom EXCEPT ![el].kids = SetFirstD(@, "temp-path", pd)], err |-> FALSE]
    ELSE IF ~HasKey(key) THEN [dom |-> dom, err |-> TRUE]
    ELSE [dom |-> AppendKid(dom, drawingGroups[key],
                            PathNode("temp-path", options.strokeColor,
                                     options.strokeWidth, pd)),
          err |-> FALSE]
  ELSE IF activeTool = "eraser" THEN
    LET hadMask == HasMaskId(own.defs, TempMaskId)
        d1 == IF hadMask THEN dom
              ELSE [dom EXCEPT ![el].defs = Append(@, MaskNode(TempMaskId, <<>>))]
    IN
    IF ~hadMask /\ ~HasKey(key) THEN [dom |-> d1, err |-> TRUE]
    ELSE
      LET d2 == IF hadMask THEN d1 ELSE SetGroupMask(d1, drawingGroups[key], TempMaskId)
          defs == d2[el].defs
          i == IF HasEraserPath(defs) THEN EraserPathAt(defs) ELSE TempMaskAt(defs)
          tempPath == IF HasEraserPath(defs) THEN [defs[i].path[1] EXCEPT !.d = pd]
                      ELSE EraserPath(pd)
      IN [dom |-> [d2 EXCEPT ![el].defs[i].path = <<tempPath>>], err |-> FALSE]
  ELSE [dom |-> dom, err |-> FALSE]

\* ---------------------------------------------------------- _finalizeStroke
\* result of _finalizeStroke() when Date.now() reads t: the new DOM and path
\* collection and whether the call threw
_finalizeStroke(t) ==
  LET el == activeElement
      key == KeyOf(el)
      pd == _generatePathData(points)
  IN
  IF el = NoElement \/ ~HasLayer(el) THEN [dom |-> dom, paths |-> paths, err |-> FALSE]
  ELSE IF ~HasKey(key) THEN [dom |-> dom, paths |-> paths, err |-> TRUE]
  ELSE
    LET tgt == drawingGroups[key]
        d1 == AppendKid(dom, tgt, PathNode("vector-pen-stroke", options.strokeColor,
                                          options.strokeWidth, pd))
        defs1 == d1[el].defs
        hasTP == HasEraserPath(defs1)
        tp == defs1[EraserPathAt(defs1)].path[1]
        permId == PermanentMaskId(t)
        permMask == MaskNode(permId, IF hasTP THEN <<[tp EXCEPT !.cls = ""]>> ELSE <<>>)
        defs2 == IF hasTP THEN [defs1 EXCEPT ![EraserPathAt(defs1)].path = <<>>] ELSE defs1
        defs3 == Append(defs2, permMask)
        d2 == [d1 EXCEPT ![el].defs = defs3]
        d3 == SetKids(d2, tgt, <<GroupNode(permId, KidsOf(d2, tgt))>>)
        d4 == [d3 EXCEPT ![el].defs = RemoveMaskId(@, TempMaskId)]
        d5 == SetGroupMask(d4, tgt, NoMask)
        d6 == IF activeTool = "eraser" THEN d5 ELSE d1
        d7 == [d6 EXCEPT ![el].kids = RemoveFirst(@, "temp-path")]
        defs7 == d7[el].defs
        d8 == IF HasEraserPath(defs7)
              THEN [d7 EXCEPT ![el].defs[EraserPathAt(defs7)].path = <<>>]
              ELSE d7
    IN [dom |-> d8,
        paths |-> [paths EXCEPT ![key] = Append(@, [type |-> activeTool,
                                                    pathData |-> pd,
                                                    points |-> points])],
        err |-> FALSE]

\* ------------------------------------------------------------------ bounds
RECURSIVE SumOver(_, _)
SumOver(f, S) ==
  IF S = {} THEN 0
  ELSE LET x == CHOOSE y \in S : TRUE IN f[x] + SumOver(f, S \ {x})

TotalNodes(dm) == SumOver([c \in Containers |-> NodeCount(dm[c].kids)], Containers)

TotalMasks(dm) == SumOver([c \in Containers |-> Len(dm[c].defs)], Containers)

RECURSIVE InkOf(_)
InkOf(recs) ==
  IF recs = <<>> THEN 0 ELSE Len(Head(recs).points) + InkOf(Tail(recs))

TotalInk(ps) == SumOver([k \in DOMAIN ps |-> InkOf(ps[k])], DOMAIN ps)

Within(dm, ps, pts) ==
  /\ TotalInk(ps) + Len(pts) <= MaxInk
  /\ TotalNodes(dm) <= MaxInk
  /\ 2 * TotalMasks(dm) <= MaxInk

\* ------------------------------------------------------ PinchZoom: state
\* scales, offsets and distances are rational numbers: a pair <<n, d>> in
\* lowest terms with d > 0 stands for n / d. The operations are functions,
\* so that an operand is evaluated once however often the result is used.
GCD[a \in Nat, b \in Nat] == IF b = 0 THEN a ELSE GCD[b, a % b]

Abs(i) == IF i < 0 THEN 0 - i ELSE i

Fraction[n \in Int, d \in Int] ==
  LET g == GCD[Abs(n), Abs(d)]
      s == IF d < 0 THEN 0 - 1 ELSE 1
  IN <<(s * n) \div g, (s * d) \div g>>

Q(n, d) == Fraction[n, d]
Whole(i) == <<i, 1>>

Sum[a \in Int \X Int, b \in Int \X Int] == Q(a[1] * b[2] + b[1] * a[2], a[2] * b[2])
Difference[a \in Int \X Int, b \in Int \X Int] == Q(a[1] * b[2] - b[1] * a[2], a[2] * b[2])
Product[a \in Int \X Int, b \in Int \X Int] == Q(a[1] * b[1], a[2] * b[2])
Quotient[a \in Int \X Int, b \in Int \X Int] == Q(a[1] * b[2], a[2] * b[1])
Less[a \in Int \X Int, b \in Int \X Int] == a[1] * b[2] < b[1] * a[2]

QAdd(a, b) == Sum[a, b]
QSub(a, b) == Difference[a, b]
QMul(a, b) == Product[a, b]
QDiv(a, b) == Quotient[a, b]
QLess(a, b) == Less[a, b]

\* the defaults of options.minZoom, maxZoom and speedFactor
MinZoom == Q(1, 2)
MaxZoom == Whole(3)
SpeedFactor == Q(2, 1000)
EnablePresentation == TRUE
DisablePan == FALSE

\* this.options after `new PinchZoom()`
DefaultZoomOptions ==
  [minZoom |-> MinZoom, maxZoom |-> MaxZoom, disablePan |-> DisablePan,
   enablePresentation |-> EnablePresentation]

\* the children a container has when PinchZoom attaches to it
Children == 2

\* closures ever created by _attachToElement
MaxClosures == 2

NoClosure == 0
NoTransform == <<>>

\* `translate(${offsetX}px, ${offsetY}px) scale(${scale})`
Transform(st) == <<st.offsetX, st.offsetY, st.scale>>

ElementState ==
  [scale |-> Whole(1), offsetX |-> Whole(0), offsetY |-> Whole(0),
   initialScale |-> Whole(1), initialOffsetX |-> Whole(0),
   initialOffsetY |-> Whole(0), isPresentation |-> FALSE]

PlainChild == [zoomEl |-> FALSE, transform |-> NoTransform]

\* a container: its classes, its children and the centre of its zoomed
\* child (the transform origin) relative to the container's corner
PlainContainer ==
  [container |-> FALSE, presentation |-> FALSE, center |-> <<0, 0>>,
   kids |-> [i \in 1..Children |-> PlainChild]]

\* an empty this.touchCache
NoCache == <<>>

ZoomInitWith(opts, center) ==
  /\ pzElements = <<>>
  /\ observers = <<>>
  /\ attachedHandlers = [c \in Containers |-> NoClosure]
  /\ closures = <<>>
  /\ zdom = [c \in Containers |-> [PlainContainer EXCEPT !.center = center]]
  /\ notes = <<>>
  /\ zoomOptions = opts
  /\ touchCache = NoCache
  /\ animations = <<>>
  /\ threw = FALSE

ZoomInit == ZoomInitWith(DefaultZoomOptions, PlainContainer.center)

\* -------------------------------------------------------------------- Init
\* this.options after `new VectorPen()`
DefaultOptions ==
  [strokeColor |-> StrokeColor, strokeWidth |-> StrokeWidth, eraserWidth |-> EraserWidth]

PenInit ==
  /\ elements = <<>>
  /\ activeElement = NoElement
  /\ isDrawing = FALSE
  /\ activeTool = NoTool
  /\ points = <<>>
  /\ paths = <<>>
  /\ drawingGroups = <<>>
  /\ activePointerId = NoPointer
  /\ touchCount = 0
  /\ dom = [c \in Containers |-> EmptyLayer]
  /\ downL = [c \in Containers |-> FALSE]
  /\ moveL = [c \in Containers |-> FALSE]
  /\ ev = "ok"
  /\ options = DefaultOptions
  /\ fingers = 0

Init == PenInit /\ ZoomInit

\* ----------------------------------------------------------- attach/detach
_attachToElement(c) ==
  IF Includes(elements, c) THEN UNCHANGED vars
  ELSE LET id == Len(elements) + 1 IN
       /\ elements' = Append(elements, c)
       /\ paths' = Put(paths, id, <<>>)
       /\ drawingGroups' = Put(drawingGroups, id, c)
       /\ dom' = [dom EXCEPT ![c] = EmptyLayer]
       /\ ev' = "ok"
       /\ UNCHANGED <<pz, fingers, options, activeElement, isDrawing, activeTool, points, activePointerId,
                      touchCount, downL, moveL>>

\* a group that left the document with its svg is still referenced by the
\* key that was not deleted
Orphan(dg, c) == [k \in DOMAIN dg |-> IF dg[k] = c THEN Stale ELSE dg[k]]

_detachFromElement_unguarded(c) ==
  IF elements = <<>> THEN UNCHANGED vars
  ELSE LET id == IF Includes(elements, c) THEN IndexOf(elements, c) ELSE Len(elements) IN
       /\ elements' = RemoveAt(elements, id)
       /\ paths' = Drop(paths, IndexOf(elements, c))
       /\ drawingGroups' = Orphan(Drop(drawingGroups, IndexOf(elements, c)), c)
       /\ dom' = [dom EXCEPT ![c] = EmptyLayer]
       /\ ev' = "ok"
       /\ UNCHANGED <<pz, fingers, options, activeElement, isDrawing, activeTool, points,
                      activePointerId, touchCount, downL, moveL>>

_detachFromElement(c) ==
  IF ~Includes(elements, c) THEN UNCHANGED vars
  ELSE LET id == IndexOf(elements, c) IN
       /\ elements' = RemoveAt(elements, id)
       /\ paths' = Drop(paths, id)
       /\ drawingGroups' = Orphan(Drop(drawingGroups, id), c)
       /\ dom' = [dom EXCEPT ![c] = EmptyLayer]
       /\ ev' = "ok"
       /\ UNCHANGED <<pz, fingers, options, activeElement, isDrawing, activeTool, points, activePointerId,
                      touchCount, downL, moveL>>

\* ------------------------------------------------------------------- tools
\* pointerdown listeners after deactivateTool()
deactivateTool ==
  IF activeTool = NoTool THEN downL
  ELSE [c \in Containers |-> IF Includes(elements, c) THEN FALSE ELSE downL[c]]

activateTool(tool) ==
  /\ IF activeTool = tool
     THEN /\ downL' = deactivateTool
          /\ activeTool' = NoTool
     ELSE /\ downL' = [c \in Containers |->
                         IF Includes(elements, c) THEN TRUE ELSE deactivateTool[c]]
          /\ activeTool' = tool
  /\ ev' = "ok"
  /\ UNCHANGED <<pz, fingers, options, elements, activeElement, isDrawing, points, paths, drawingGroups,
                 activePointerId, touchCount, dom, moveL>>

DeactivateTool ==
  IF activeTool = NoTool THEN UNCHANGED vars
  ELSE /\ downL' = deactivateTool
       /\ activeTool' = NoTool
       /\ ev' = "ok"
       /\ UNCHANGED <<pz, fingers, options, elements, activeElement, isDrawing, points, paths, drawingGroups,
                      activePointerId, touchCount, dom, moveL>>

\* ------------------------------------------------------------ touch events
\* the stroke fields and listeners take the values cancelDrawing() leaves
Cancelled ==
  /\ isDrawing' = cancelDrawing.isDrawing
  /\ points' = cancelDrawing.points
  /\ activePointerId' = cancelDrawing.activePointerId
  /\ dom' = cancelDrawing.dom
  /\ moveL' = cancelDrawing.moveL

\* the touch listeners are installed by attach and removed by detach
handleTouchStart(c, n) ==
  /\ Includes(elements, c)
  /\ IF n > 1 /\ isDrawing
     THEN /\ touchCount' = n
          /\ fingers' = n
          /\ Cancelled
          /\ ev' = "cancel"
          /\ UNCHANGED <<pz, options, elements, activeElement, activeTool, paths, drawingGroups,
                         downL>>
     ELSE IF touchCount = n /\ fingers = n THEN UNCHANGED vars
     ELSE /\ touchCount' = n
          /\ fingers' = n
          /\ ev' = "ok"
          /\ UNCHANGED <<pz, options, elements, activeElement, isDrawing, activeTool, points, paths,
                         drawingGroups, activePointerId, dom, downL, moveL>>

handleTouchEnd(c, n) ==
  /\ Includes(elements, c)
  /\ IF touchCount = n /\ fingers = n THEN UNCHANGED vars
     ELSE /\ touchCount' = n
          /\ fingers' = n
          /\ ev' = "ok"
          /\ UNCHANGED <<pz, options, elements, activeElement, isDrawing, activeTool, points, paths,
                         drawingGroups, activePointerId, dom, downL, moveL>>

handleTouchCancel(c, n) ==
  /\ Includes(elements, c)
  /\ IF isDrawing
     THEN /\ touchCount' = n
          /\ fingers' = n
          /\ Cancelled
          /\ ev' = "cancel"
          /\ UNCHANGED <<pz, options, elements, activeElement, activeTool, paths, drawingGroups,
                         downL>>
     ELSE IF touchCount = n /\ fingers = n THEN UNCHANGED vars
     ELSE /\ touchCount' = n
          /\ fingers' = n
          /\ ev' = "ok"
          /\ UNCHANGED <<pz, options, elements, activeElement, isDrawing, activeTool, points, paths,
                         drawingGroups, activePointerId, dom, downL, moveL>>

\* ---------------------------------------------------------- pointer events
handlePointerDown_anyTouches(c, ptr, pos) ==
  /\ downL[c]
  /\ IF FALSE THEN UNCHANGED vars
     ELSE /\ activeElement' = c
          /\ IF ~Includes(elements, c)
             THEN UNCHANGED <<activePointerId, isDrawing, points, moveL>>
             ELSE /\ activePointerId' = ptr
                  /\ isDrawing' = TRUE
                  /\ points' = <<pos>>
                  /\ moveL' = [moveL EXCEPT ![c] = TRUE]
          /\ ev' = "ok"
          /\ UNCHANGED <<pz, fingers, options, elements, activeTool, paths, drawingGroups, touchCount,
                         dom, downL>>

handlePointerDown(c, ptr, pos) ==
  /\ downL[c]
  /\ IF touchCount > 1 THEN UNCHANGED vars
     ELSE /\ activeElement' = c
          /\ IF ~Includes(elements, c)
             THEN UNCHANGED <<activePointerId, isDrawing, points, moveL>>
             ELSE /\ activePointerId' = ptr
                  /\ isDrawing' = TRUE
                  /\ points' = <<pos>>
                  /\ moveL' = [moveL EXCEPT ![c] = TRUE]
          /\ ev' = "ok"
          /\ UNCHANGED <<pz, fingers, options, elements, activeTool, paths, drawingGroups, touchCount,
                         dom, downL>>

handlePointerMove_anyPointer(c, ptr, pos) ==
  /\ moveL[c]
  /\ IF FALSE THEN UNCHANGED vars
     ELSE IF touchCount > 1
     THEN IF ~isDrawing \/ activeElement = NoElement THEN UNCHANGED vars
          ELSE /\ Cancelled
               /\ ev' = "cancel"
               /\ UNCHANGED <<pz, fingers, options, elements, activeElement, activeTool, paths,
                              drawingGroups, touchCount, downL>>
     ELSE IF ~isDrawing \/ activeElement = NoElement THEN UNCHANGED vars
     ELSE IF FarEnough(pos, points[Len(points)])
     THEN LET r == _updateStroke(Append(points, pos)) IN
          /\ points' = Append(points, pos)
          /\ dom' = r.dom
          /\ Within(dom', paths, points')
          /\ ev' = IF r.err THEN "throw" ELSE "accept"
          /\ UNCHANGED <<pz, fingers, options, elements, activeElement, isDrawing, activeTool, paths,
                         drawingGroups, activePointerId, touchCount, downL, moveL>>
     ELSE UNCHANGED vars

handlePointerMove(c, ptr, pos) ==
  /\ moveL[c]
  /\ IF ptr # activePointerId THEN UNCHANGED vars
     ELSE IF touchCount > 1
     THEN IF ~isDrawing \/ activeElement = NoElement THEN UNCHANGED vars
          ELSE /\ Cancelled
               /\ ev' = "cancel"
               /\ UNCHANGED <<pz, fingers, options, elements, activeElement, activeTool, paths,
                              drawingGroups, touchCount, downL>>
     ELSE IF ~isDrawing \/ activeElement = NoElement THEN UNCHANGED vars
     ELSE IF FarEnough(pos, points[Len(points)])
     THEN LET r == _updateStroke(Append(points, pos)) IN
          /\ points' = Append(points, pos)
          /\ dom' = r.dom
          /\ Within(dom', paths, points')
          /\ ev' = IF r.err THEN "throw" ELSE "accept"
          /\ UNCHANGED <<pz, fingers, options, elements, activeElement, isDrawing, activeTool, paths,
                         drawingGroups, activePointerId, touchCount, downL, moveL>>
     ELSE UNCHANGED vars

\* timestamps of the permanent masks that exist in any layer
StampsOf(defs) ==
  {defs[i].id[2] : i \in {j \in 1..Len(defs) : Len(defs[j].id) = 2}}

Stamps(dm) == UNION {StampsOf(dm[c].defs) : c \in Containers}

\* Date.now() never reads less than a stamp it returned before
ClockReads(t) == \A u \in Stamps(dom) : t >= u

\* `if (this.points.length > 1)` of handlePointerUp
HasStroke_nonEmpty(pts) == Len(pts) > 0

HasStroke(pts) == Len(pts) > 1

\* pointerup, pointercancel and pointerleave share this listener; t is the
\* value Date.now() returns if the handler reads the clock
handlePointerUp(c, ptr, t) ==
  /\ moveL[c]
  /\ IF ptr # activePointerId \/ ~isDrawing \/ activeElement = NoElement
     THEN t = 0 /\ UNCHANGED vars
     ELSE LET commit == HasStroke(points)
              r == IF commit THEN _finalizeStroke(t)
                   ELSE [dom |-> dom, paths |-> paths, err |-> FALSE]
              reads == commit /\ activeTool = "eraser" /\ ~r.err
                       /\ HasLayer(activeElement)
          IN
          /\ IF reads THEN ClockReads(t) ELSE t = 0
          /\ dom' = r.dom
          /\ paths' = r.paths
          /\ Within(dom', paths', <<>>)
          /\ IF r.err
             THEN /\ ev' = "throw"
                  /\ UNCHANGED <<isDrawing, points, activePointerId, moveL>>
             ELSE /\ ev' = IF paths' # paths THEN "commit" ELSE "release"
                  /\ isDrawing' = FALSE
                  /\ points' = <<>>
                  /\ activePointerId' = NoPointer
                  /\ moveL' = [moveL EXCEPT ![activeElement] = FALSE]
          /\ UNCHANGED <<pz, fingers, options, elements, activeElement, activeTool, drawingGroups,
                         touchCount, downL>>

\* ------------------------------------------------------------------- clear
_clearElement(c) ==
  LET id == KeyOf(c) IN
  IF ~Includes(elements, c) THEN UNCHANGED vars
  ELSE /\ IF ~HasKey(id)
          THEN /\ ev' = "throw"
               /\ UNCHANGED <<dom, paths>>
          ELSE /\ ev' = "clear"
               /\ dom' = SetKids(dom, drawingGroups[id], <<>>)
               /\ paths' = [paths EXCEPT ![id] = <<>>]
       /\ UNCHANGED <<pz, fingers, options, elements, activeElement, isDrawing, activeTool, points,
                      drawingGroups, activePointerId, touchCount, downL, moveL>>

Next ==
  \/ \E c \in Main : _attachToElement(c)
  \/ \E c \in Main : _detachFromElement(c)
  \/ \E tool \in Tools : activateTool(tool)
  \/ DeactivateTool
  \/ \E c \in Main, n \in TouchCounts \ {0} : handleTouchStart(c, n)
  \/ \E c \in Main, n \in TouchCounts : handleTouchEnd(c, n)
  \/ \E c \in Main, n \in TouchCounts : handleTouchCancel(c, n)
  \/ \E c \in Main, ptr \in Pointers, pos \in DownPos : handlePointerDown(c, ptr, pos)
  \/ \E c \in Main, ptr \in Pointers, pos \in Pos : handlePointerMove(c, ptr, pos)
  \/ \E c \in Main, ptr \in Pointers, t \in Times : handlePointerUp(c, ptr, t)
  \/ \E c \in Main : _clearElement(c)

Spec == Init /\ [][Next]_vars

\* ------------------------------------------------------- style setters
Colors == {"#000000", "#ff0000"}
StrokeWidths == {2, 5}
EraserWidths == {40, 10}

setColor(color) ==
  /\ options' = [options EXCEPT !.strokeColor = color]
  /\ UNCHANGED <<elements, activeElement, isDrawing, activeTool, points, paths,
                 drawingGroups, activePointerId, touchCount, dom, downL, moveL, ev, pz,
                 fingers>>

setStrokeWidth(width) ==
  /\ options' = [options EXCEPT !.strokeWidth = width]
  /\ UNCHANGED <<elements, activeElement, isDrawing, activeTool, points, paths,
                 drawingGroups, activePointerId, touchCount, dom, downL, moveL, ev, pz,
                 fingers>>

setEraserWidth(width) ==
  /\ options' = [options EXCEPT !.eraserWidth = width]
  /\ UNCHANGED <<elements, activeElement, isDrawing, activeTool, points, paths,
                 drawingGroups, activePointerId, touchCount, dom, downL, moveL, ev, pz,
                 fingers>>

\* strokes drawn with one pointer on an attached container while the style
\* is being set
StylePointers == {1}
StyleTimes == {0}

NextStyle ==
  \/ \E c \in Main : _attachToElement(c)
  \/ \E tool \in Tools : activateTool(tool)
  \/ \E c \in Main, ptr \in StylePointers, pos \in DownPos : handlePointerDown(c, ptr, pos)
  \/ \E c \in Main, ptr \in StylePointers, pos \in Pos : handlePointerMove(c, ptr, pos)
  \/ \E c \in Main, ptr \in StylePointers, t \in StyleTimes : handlePointerUp(c, ptr, t)
  \/ \E color \in Colors : setColor(color)
  \/ \E width \in StrokeWidths : setStrokeWidth(width)
  \/ \E width \in EraserWidths : setEraserWidth(width)

SpecStyle == Init /\ [][NextStyle]_vars

\* ------------------------------------------------------- two containers
\* pen strokes and touches on two attached containers of one engine
TwoTools == {"pen"}

NextTwo ==
  \/ \E c \in Containers : _attachToElement(c)
  \/ \E tool \in TwoTools : activateTool(tool)
  \/ \E c \in Containers, n \in TouchCounts \ {0} : handleTouchStart(c, n)
  \/ \E c \in Containers, ptr \in Pointers, pos \in DownPos : handlePointerDown(c, ptr, pos)
  \/ \E c \in Containers, ptr \in Pointers, pos \in Pos : handlePointerMove(c, ptr, pos)
  \/ \E c \in Containers, ptr \in Pointers, t \in StyleTimes : handlePointerUp(c, ptr, t)

SpecTwo == Init /\ [][NextTwo]_vars

\* ------------------------------------------------- container life cycle
\* a touch point lands on or leaves an element that carries no touch listener
\* of the engine (never attached, or detached): no handler runs
TouchUnheard(c, n) ==
  /\ ~Includes(elements, c)
  /\ fingers' = n
  /\ UNCHANGED <<pz, options, elements, activeElement, isDrawing, activeTool, points, paths,
                 drawingGroups, activePointerId, touchCount, dom, downL, moveL, ev>>

\* two containers are attached and detached in any order while the pen draws
\* on them with a mouse and fingers land on one of them and lift again; touch
\* events go to the element the touch point landed on, a touch-start reports
\* more touch points than before, a touch-end fewer
Touched == {"B"}

\* positions of the pointermove events
LifePos == {<<2, 0>>}

NextLife ==
  \/ \E c \in Containers : _attachToElement(c)
  \/ \E c \in Containers : _detachFromElement(c)
  \/ \E tool \in TwoTools : activateTool(tool)
  \/ \E c \in Touched, n \in TouchCounts : n > fingers /\ handleTouchStart(c, n)
  \/ \E c \in Touched, n \in TouchCounts : n < fingers /\ handleTouchEnd(c, n)
  \/ \E c \in Touched, n \in TouchCounts : n # fingers /\ TouchUnheard(c, n)
  \/ \E c \in Containers, ptr \in StylePointers, pos \in DownPos : handlePointerDown(c, ptr, pos)
  \/ \E c \in Containers, ptr \in StylePointers, pos \in LifePos : handlePointerMove(c, ptr, pos)
  \/ \E c \in Containers, ptr \in StylePointers, t \in StyleTimes : handlePointerUp(c, ptr, t)
  \/ \E c \in Containers : _clearElement(c)

SpecLife == Init /\ [][NextLife]_vars

\* ---------------------------------------------------- PinchZoom: handlers
\* event.deltaY and the cursor position, relative to the container, of a
\* wheel event
WheelDeltas == {-500, 250}
WheelPos == {<<0, 0>>}

\* detail of the pinchzoom event; its isPresentation is <<b>> for the
\* boolean b of the state and <<>> (undefined) for a state without the field
PinchZoomNote(st) ==
  <<"pinchzoom", st.scale, st.offsetX, st.offsetY,
    IF "isPresentation" \in DOMAIN st THEN <<st.isPresentation>> ELSE <<>> >>

PresentationNote(st) == <<"presentationmodechange", st.isPresentation>>

\* result of _applyTransform(element, state) on the markup zd: the transform
\* goes to every .pinch-zoom-element below the element and one pinchzoom
\* event is dispatched, nothing happens when there is no such element
_applyTransform(zd, c, st) ==
  LET kids == zd[c].kids IN
  IF \A i \in 1..Children : ~kids[i].zoomEl
  THEN [zdom |-> zd, notes |-> <<>>]
  ELSE [zdom |-> [zd EXCEPT ![c].kids =
                    [i \in 1..Children |->
                       IF kids[i].zoomEl
                       THEN [kids[i] EXCEPT !.transform = Transform(st)]
                       ELSE kids[i]]],
        notes |-> <<PinchZoomNote(st)>>]

Zoom_attachToElement_again(c) ==
  /\ Len(closures) < MaxClosures
  /\ LET g == Len(closures) + 1
         marked == [zdom EXCEPT ![c].container = TRUE,
                                ![c].kids = [i \in 1..Children |->
                                               [zdom[c].kids[i] EXCEPT !.zoomEl = TRUE]]]
         r == _applyTransform(marked, c, ElementState)
     IN /\ closures' = Append(closures, [el |-> c, state |-> ElementState,
                                         touch |-> TRUE, dbl |-> zoomOptions.enablePresentation,
                                         obs |-> TRUE])
        /\ attachedHandlers' = [attachedHandlers EXCEPT ![c] = g]
        /\ pzElements' = Append(pzElements, c)
        /\ observers' = Put(observers, IndexOf(pzElements', c) - 1, g)
        /\ zdom' = r.zdom
        /\ notes' = r.notes
        /\ threw' = FALSE
        /\ UNCHANGED <<pen, zoomOptions, touchCache, animations>>

Zoom_attachToElement(c) ==
  IF Includes(pzElements, c) \/ Children = 0 THEN UNCHANGED vars
  ELSE
  /\ Len(closures) < MaxClosures
  /\ LET g == Len(closures) + 1
         marked == [zdom EXCEPT ![c].container = TRUE,
                                ![c].kids = [i \in 1..Children |->
                                               [zdom[c].kids[i] EXCEPT !.zoomEl = TRUE]]]
         r == _applyTransform(marked, c, ElementState)
     IN /\ closures' = Append(closures, [el |-> c, state |-> ElementState,
                                         touch |-> TRUE, dbl |-> zoomOptions.enablePresentation,
                                         obs |-> TRUE])
        /\ attachedHandlers' = [attachedHandlers EXCEPT ![c] = g]
        /\ pzElements' = Append(pzElements, c)
        /\ observers' = Put(observers, IndexOf(pzElements', c) - 1, g)
        /\ zdom' = r.zdom
        /\ notes' = r.notes
        /\ threw' = FALSE
        /\ UNCHANGED <<pen, zoomOptions, touchCache, animations>>

\* element.querySelector('.pinch-zoom-element'): the position of the first
\* child that has the class, 0 when none has
FirstZoomEl(kids) ==
  IF \E i \in 1..Children : kids[i].zoomEl
  THEN CHOOSE i \in 1..Children :
         kids[i].zoomEl /\ \A j \in 1..(i - 1) : ~kids[j].zoomEl
  ELSE 0

Zoom_detachFromElement(c) ==
  IF ~Includes(pzElements, c) THEN UNCHANGED vars
  ELSE LET index == IndexOf(pzElements, c) - 1
           handlers == attachedHandlers[c]
           cl1 == IF handlers # NoClosure
                  THEN [closures EXCEPT ![handlers].touch = FALSE]
                  ELSE closures
           target == FirstZoomEl(zdom[c].kids)
           hasObserver == index \in DOMAIN observers
       IN /\ closures' = IF hasObserver
                         THEN [cl1 EXCEPT ![observers[index]].obs = FALSE]
                         ELSE cl1
          /\ attachedHandlers' = [attachedHandlers EXCEPT ![c] = NoClosure]
          /\ zdom' = [zdom EXCEPT ![c].container = FALSE,
                                  ![c].kids = IF target = 0 THEN @
                                              ELSE [@ EXCEPT ![target] = PlainChild]]
          /\ observers' = IF hasObserver THEN Drop(observers, index) ELSE observers
          /\ pzElements' = RemoveAt(pzElements, index + 1)
          /\ notes' = <<>>
          /\ threw' = FALSE
          /\ UNCHANGED <<pen, zoomOptions, touchCache, animations>>

\* the closures of container c whose listener or observer `kind` is connected,
\* in creation order
RECURSIVE Connected(_, _, _)
Connected(c, kind, n) ==
  IF n = 0 THEN <<>>
  ELSE Connected(c, kind, n - 1)
       \o (IF closures[n].el = c /\ closures[n][kind] THEN <<n>> ELSE <<>>)

QMin(a, b) == IF QLess(b, a) THEN b ELSE a
QMax(a, b) == IF QLess(a, b) THEN b ELSE a

Clamp_upperOnly(scale) == QMin(zoomOptions.maxZoom, scale)

\* Math.max(minZoom, Math.min(maxZoom, scale))
Clamp(scale) == QMax(zoomOptions.minZoom, QMin(zoomOptions.maxZoom, scale))

\* mouse / scale - mouse / newScale * (scale / newScale) + offset
WheelOffset(mouse, scale, newScale, offset) ==
  QAdd(QSub(QDiv(Whole(mouse), scale),
            QMul(QDiv(Whole(mouse), newScale), QDiv(scale, newScale))),
       offset)

\* offsets and denominators the model follows
MaxOffset == 10
MaxDenominator == 10

InRange(st) ==
  /\ ~QLess(Whole(MaxOffset), st.offsetX) /\ ~QLess(st.offsetX, Whole(0 - MaxOffset))
  /\ ~QLess(Whole(MaxOffset), st.offsetY) /\ ~QLess(st.offsetY, Whole(0 - MaxOffset))
  /\ st.scale[2] <= MaxDenominator
  /\ st.offsetX[2] <= MaxDenominator
  /\ st.offsetY[2] <= MaxDenominator

Zoom_handleWheel(c, deltaY, mouse) ==
  /\ Connected(c, "touch", Len(closures)) # <<>>
  /\ LET g == Connected(c, "touch", Len(closures))[1]
         st == closures[g].state
         delta == QMul(Whole(0 - deltaY), SpeedFactor)
         newScale == Clamp(QMul(st.scale, QAdd(Whole(1), delta)))
         panned == IF zoomOptions.disablePan THEN st
                   ELSE [st EXCEPT
                           !.offsetX = WheelOffset(mouse[1], st.scale, newScale, @),
                           !.offsetY = WheelOffset(mouse[2], st.scale, newScale, @)]
         st2 == [panned EXCEPT !.scale = newScale]
         r == _applyTransform(zdom, c, st2)
     IN /\ InRange(st2)
        /\ closures' = [closures EXCEPT ![g].state = st2]
        /\ zdom' = r.zdom
        /\ notes' = r.notes
        /\ threw' = FALSE
        /\ UNCHANGED <<pen, zoomOptions, touchCache, animations, pzElements, observers, attachedHandlers>>

\* result of togglePresentationMode(element, state) for the state of closure g
togglePresentationMode(cl, zd, g) ==
  LET c == cl[g].el
      st == [cl[g].state EXCEPT !.isPresentation = ~@, !.scale = Whole(1),
                                !.offsetX = Whole(0), !.offsetY = Whole(0)]
      r == _applyTransform([zd EXCEPT ![c].presentation = st.isPresentation], c, st)
  IN [closures |-> [cl EXCEPT ![g].state = st],
      zdom |-> r.zdom,
      notes |-> r.notes \o <<PresentationNote(st)>>]

\* the dblclick listeners gs run one after the other
RECURSIVE DoubleClicks(_, _, _, _)
DoubleClicks(gs, cl, zd, ns) ==
  IF gs = <<>> THEN [closures |-> cl, zdom |-> zd, notes |-> ns]
  ELSE LET r == togglePresentationMode(cl, zd, Head(gs))
       IN DoubleClicks(Tail(gs), r.closures, r.zdom, ns \o r.notes)

Zoom_handleDoubleClick(c) ==
  /\ zoomOptions.enablePresentation
  /\ Connected(c, "dbl", Len(closures)) # <<>>
  /\ LET r == DoubleClicks(Connected(c, "dbl", Len(closures)), closures, zdom, <<>>)
     IN /\ closures' = r.closures
        /\ zdom' = r.zdom
        /\ notes' = r.notes
        /\ threw' = FALSE
        /\ UNCHANGED <<pen, zoomOptions, touchCache, animations, pzElements, observers, attachedHandlers>>

\* the connected ResizeObservers gs of a container report a resize
RECURSIVE Resizes(_, _, _)
Resizes(gs, zd, ns) ==
  IF gs = <<>> THEN [zdom |-> zd, notes |-> ns]
  ELSE LET r == _applyTransform(zd, closures[Head(gs)].el, closures[Head(gs)].state)
       IN Resizes(Tail(gs), r.zdom, ns \o r.notes)

Zoom_handleResize(c) ==
  /\ Connected(c, "obs", Len(closures)) # <<>>
  /\ LET r == Resizes(Connected(c, "obs", Len(closures)), zdom, <<>>)
     IN /\ zdom' = r.zdom
        /\ notes' = r.notes
        /\ threw' = FALSE
        /\ UNCHANGED <<pen, zoomOptions, touchCache, animations, pzElements, observers, attachedHandlers, closures>>

\* ------------------------------------------------------ PinchZoom: pinch
\* a touch of a touch event: its identifier and its position relative to
\* the container
Touch(id, x, y) == [id |-> id, x |-> x, y |-> y]

\* event.touches of the touch events: finger 1 alone, fingers 1 and 2 at
\* distance 100 and 200 in both orders, fingers 1 and 3, all three
TouchLists ==
  { <<Touch(1, 100, 10)>>,
    <<Touch(1, 100, 10), Touch(2, 200, 10)>>,
    <<Touch(1, 60, 10), Touch(2, 260, 10)>>,
    <<Touch(2, 260, 10), Touch(1, 60, 10)>>,
    <<Touch(1, 60, 10), Touch(3, 260, 10)>>,
    <<Touch(1, 100, 10), Touch(3, 300, 10), Touch(2, 200, 10)>> }

\* Math.sqrt of a perfect square
Sqrt(n) == CHOOSE r \in 0..n : r * r = n

_getDistance(x1, y1, x2, y2) ==
  Whole(Sqrt((x2 - x1) * (x2 - x1) + (y2 - y1) * (y2 - y1)))

_getMidpoint(x1, y1, x2, y2) == [x |-> Q(x1 + x2, 2), y |-> Q(y1 + y2, 2)]

\* the closure whose touch and wheel listeners are installed on container c
Listening(c) == Connected(c, "touch", Len(closures))

Zoom_handleTouchStart(c, touches) ==
  /\ Listening(c) # <<>>
  /\ IF Len(touches) < 2 THEN UNCHANGED vars
     ELSE LET g == Listening(c)[1]
              st == closures[g].state
              t1 == touches[1]
              t2 == touches[2]
          IN /\ closures' = [closures EXCEPT ![g].state =
                               [st EXCEPT !.initialScale = st.scale,
                                          !.initialOffsetX = st.offsetX,
                                          !.initialOffsetY = st.offsetY]]
             /\ touchCache' =
                  [touch1 |-> t1, touch2 |-> t2,
                   initialDistance |-> _getDistance(t1.x, t1.y, t2.x, t2.y),
                   initialMidpoint |-> _getMidpoint(t1.x, t1.y, t2.x, t2.y)]
             /\ notes' = <<>>
             /\ threw' = FALSE
             /\ UNCHANGED <<pen, zoomOptions, animations, pzElements, observers,
                            attachedHandlers, zdom>>

\* the touch of the list that the loop of handleTouchMove leaves in touch1 or
\* touch2 for the cached identifier id: the last one carrying it, <<>> if none
RECURSIVE Matching(_, _)
Matching(touches, id) ==
  IF touches = <<>> THEN <<>>
  ELSE LET later == Matching(Tail(touches), id)
       IN IF later # <<>> THEN later
          ELSE IF Head(touches).id = id THEN <<Head(touches)>> ELSE <<>>

Pinched_fromPrevious(st, t1, t2) ==
  LET currentDistance == _getDistance(t1.x, t1.y, t2.x, t2.y)
      scaleFactor == QDiv(currentDistance, touchCache.initialDistance)
      newScale == Clamp(QMul(st.scale, scaleFactor))
      currentMidpoint == _getMidpoint(t1.x, t1.y, t2.x, t2.y)
      dx == QSub(currentMidpoint.x, touchCache.initialMidpoint.x)
      dy == QSub(currentMidpoint.y, touchCache.initialMidpoint.y)
      panned == IF zoomOptions.disablePan THEN st
                ELSE [st EXCEPT !.offsetX = QAdd(st.initialOffsetX, QDiv(dx, newScale)),
                                !.offsetY = QAdd(st.initialOffsetY, QDiv(dy, newScale))]
  IN [panned EXCEPT !.scale = newScale]

\* the state handleTouchMove computes from the touches t1, t2 it matched
Pinched(st, t1, t2) ==
  LET currentDistance == _getDistance(t1.x, t1.y, t2.x, t2.y)
      scaleFactor == QDiv(currentDistance, touchCache.initialDistance)
      newScale == Clamp(QMul(st.initialScale, scaleFactor))
      currentMidpoint == _getMidpoint(t1.x, t1.y, t2.x, t2.y)
      dx == QSub(currentMidpoint.x, touchCache.initialMidpoint.x)
      dy == QSub(currentMidpoint.y, touchCache.initialMidpoint.y)
      panned == IF zoomOptions.disablePan THEN st
                ELSE [st EXCEPT !.offsetX = QAdd(st.initialOffsetX, QDiv(dx, newScale)),
                                !.offsetY = QAdd(st.initialOffsetY, QDiv(dy, newScale))]
  IN [panned EXCEPT !.scale = newScale]

Zoom_handleTouchMove_byPosition(c, touches) ==
  /\ Listening(c) # <<>>
  /\ IF Len(touches) < 2 THEN UNCHANGED vars
     ELSE IF touchCache = NoCache
     THEN /\ threw' = TRUE
          /\ notes' = <<>>
          /\ UNCHANGED <<pen, zoomOptions, touchCache, animations, pzElements,
                         observers, attachedHandlers, closures, zdom>>
     ELSE LET g == Listening(c)[1]
              st2 == Pinched(closures[g].state, touches[1], touches[2])
              r == _applyTransform(zdom, c, st2)
          IN /\ InRange(st2)
             /\ closures' = [closures EXCEPT ![g].state = st2]
             /\ zdom' = r.zdom
             /\ notes' = r.notes
             /\ threw' = FALSE
             /\ UNCHANGED <<pen, zoomOptions, touchCache, animations,
                            pzElements, observers, attachedHandlers>>

Zoom_handleTouchMove(c, touches) ==
  /\ Listening(c) # <<>>
  /\ IF Len(touches) < 2 THEN UNCHANGED vars
     ELSE IF touchCache = NoCache
     THEN \* this.touchCache.touch1 is undefined: reading its id throws
          /\ threw' = TRUE
          /\ notes' = <<>>
          /\ UNCHANGED <<pen, zoomOptions, touchCache, animations, pzElements,
                         observers, attachedHandlers, closures, zdom>>
     ELSE LET g == Listening(c)[1]
              m1 == Matching(touches, touchCache.touch1.id)
              m2 == Matching(touches, touchCache.touch2.id)
          IN IF m1 = <<>> \/ m2 = <<>> THEN UNCHANGED vars
             ELSE LET st2 == Pinched(closures[g].state, m1[1], m2[1])
                      r == _applyTransform(zdom, c, st2)
                  IN /\ InRange(st2)
                     /\ closures' = [closures EXCEPT ![g].state = st2]
                     /\ zdom' = r.zdom
                     /\ notes' = r.notes
                     /\ threw' = FALSE
                     /\ UNCHANGED <<pen, zoomOptions, touchCache, animations,
                                    pzElements, observers, attachedHandlers>>

\* duration of the snap-back animation in ms
AnimationDuration == 200

\* _animateToScale loops the model follows
MaxAnimations == 1

\* const tempState = { scale: 1, offsetX: 0, offsetY: 0 } of _resetElement
TempState == [scale |-> Whole(1), offsetX |-> Whole(0), offsetY |-> Whole(0)]

\* the state object an animation writes to
StateOf(a) == IF a.g = NoClosure THEN TempState ELSE closures[a.g].state

\* _animateToScale(element, state, targetScale) on container c:
\* the first animate() runs at once, with no time elapsed
\* the state st is the state of closure g, or a temporary object of the
\* caller when g is NoClosure
_animateToScale(c, g, st, targetScale) ==
  LET r == _applyTransform(zdom, c, st)
  IN /\ Len(animations) < MaxAnimations
     /\ animations' = Append(animations,
                             [el |-> c, g |-> g, startScale |-> st.scale,
                              targetScale |-> targetScale, elapsed |-> 0,
                              pending |-> TRUE])
     /\ zdom' = r.zdom
     /\ notes' = r.notes

\* touchend and touchcancel on container c
Zoom_handleTouchEnd(c) ==
  /\ Listening(c) # <<>>
  /\ LET g == Listening(c)[1]
         st == closures[g].state
     IN /\ IF QLess(st.scale, zoomOptions.minZoom)
           THEN _animateToScale(c, g, st, zoomOptions.minZoom)
           ELSE IF QLess(zoomOptions.maxZoom, st.scale)
           THEN _animateToScale(c, g, st, zoomOptions.maxZoom)
           ELSE /\ notes' = <<>>
                /\ UNCHANGED <<animations, zdom>>
        /\ touchCache' = NoCache
        /\ threw' = FALSE
        /\ UNCHANGED <<pen, zoomOptions, pzElements, observers,
                       attachedHandlers, closures>>

\* Math.min(elapsed / duration, 1)
Progress(elapsed) == QMin(Q(elapsed, AnimationDuration), Whole(1))

\* startScale + (targetScale - startScale) * easedProgress
Eased(a, progress) ==
  QAdd(a.startScale,
       QMul(QSub(a.targetScale, a.startScale),
            QMul(progress, QSub(Whole(2), progress))))

\* an animation that requested no further frame: nothing refers to its
\* start, target and start time any more
Ended ==
  [el |-> NoElement, g |-> NoClosure, startScale |-> Whole(0), targetScale |-> Whole(0), elapsed |-> 0,
   pending |-> FALSE]

\* a frame of animation i: animate() called by requestAnimationFrame; the
\* values it computes are named once
Zoom_animate_forever(i) ==
  /\ i \in DOMAIN animations
  /\ animations[i].pending
  /\ \E a \in {animations[i]} :
     \E progress \in {Progress(a.elapsed)} :
     \E st \in {[StateOf(a) EXCEPT !.scale = Eased(a, progress)]} :
     \E r \in {_applyTransform(zdom, a.el, st)} :
        /\ closures' = IF a.g = NoClosure THEN closures
                       ELSE [closures EXCEPT ![a.g].state = st]
        /\ zdom' = r.zdom
        /\ notes' = r.notes
        /\ threw' = FALSE
        /\ animations' = [animations EXCEPT ![i].pending = TRUE]
        /\ UNCHANGED <<pen, zoomOptions, touchCache, pzElements, observers,
                       attachedHandlers>>

Zoom_animate(i) ==
  /\ i \in DOMAIN animations
  /\ animations[i].pending
  /\ \E a \in {animations[i]} :
     \E progress \in {Progress(a.elapsed)} :
     \E st \in {[StateOf(a) EXCEPT !.scale = Eased(a, progress)]} :
     \E r \in {_applyTransform(zdom, a.el, st)} :
        /\ closures' = IF a.g = NoClosure THEN closures
                       ELSE [closures EXCEPT ![a.g].state = st]
        /\ zdom' = r.zdom
        /\ notes' = r.notes
        /\ threw' = FALSE
        /\ animations' = [animations EXCEPT ![i] = IF QLess(progress, Whole(1)) THEN @ ELSE Ended]
        /\ UNCHANGED <<pen, zoomOptions, touchCache, pzElements, observers,
                       attachedHandlers>>

\* Date.now() advances by dt ms; an elapsed time beyond the duration is
\* followed as the duration (the progress is the same)
TickSteps == {100, 200}

Tick(dt) ==
  /\ \E i \in DOMAIN animations :
       animations[i].pending /\ animations[i].elapsed < AnimationDuration
  /\ animations' =
       [i \in DOMAIN animations |->
          IF animations[i].pending
          THEN [animations[i] EXCEPT
                  !.elapsed = IF @ + dt > AnimationDuration
                              THEN AnimationDuration ELSE @ + dt]
          ELSE animations[i]]
  /\ UNCHANGED <<pen, zoomOptions, touchCache, pzElements, observers,
                 attachedHandlers, closures, zdom, notes, threw>>

setMinZoom(zoom) ==
  /\ zoomOptions' = [zoomOptions EXCEPT !.minZoom = zoom]
  /\ notes' = <<>>
  /\ threw' = FALSE
  /\ UNCHANGED <<pen, touchCache, animations, pzElements, observers,
                 attachedHandlers, closures, zdom>>

setMaxZoom(zoom) ==
  /\ zoomOptions' = [zoomOptions EXCEPT !.maxZoom = zoom]
  /\ notes' = <<>>
  /\ threw' = FALSE
  /\ UNCHANGED <<pen, touchCache, animations, pzElements, observers,
                 attachedHandlers, closures, zdom>>

\* reset(element)
Zoom_resetElement(c) ==
  IF ~Includes(pzElements, c) \/ FirstZoomEl(zdom[c].kids) = 0 THEN UNCHANGED vars
  ELSE /\ _animateToScale(c, NoClosure, TempState, Whole(1))
       /\ threw' = FALSE
       /\ UNCHANGED <<pen, zoomOptions, touchCache, pzElements, observers,
                      attachedHandlers, closures>>

\* the properties of the handlers object stored for an element
HandlerKeys == {"touchStart", "touchMove", "touchEnd", "wheel", "doubleClick"}

\* _getElementState(element): handlers && handlers.state, here <<g>> when it
\* is the state of closure g and <<>> when it is undefined
_getElementState(c) ==
  IF attachedHandlers[c] # NoClosure /\ "state" \in HandlerKeys
  THEN <<attachedHandlers[c]>>
  ELSE <<>>

\* the forEach of handleEscKey over the elements els
RECURSIVE ExitPresentation(_, _, _, _)
ExitPresentation(els, cl, zd, ns) ==
  IF els = <<>> THEN [closures |-> cl, zdom |-> zd, notes |-> ns]
  ELSE LET state == _getElementState(Head(els))
       IN IF state # <<>> /\ cl[state[1]].state.isPresentation
          THEN LET r == togglePresentationMode(cl, zd, state[1])
               IN ExitPresentation(Tail(els), r.closures, r.zdom, ns \o r.notes)
          ELSE ExitPresentation(Tail(els), cl, zd, ns)

\* event.key of the keydown events
Keys == {"Escape", "Enter"}

\* keydown on the document
Zoom_handleEscKey(key) ==
  /\ zoomOptions.enablePresentation
  /\ IF key # "Escape" THEN UNCHANGED vars
     ELSE LET r == ExitPresentation(pzElements, closures, zdom, <<>>)
          IN /\ closures' = r.closures
             /\ zdom' = r.zdom
             /\ notes' = r.notes
             /\ threw' = FALSE
             /\ UNCHANGED <<pen, zoomOptions, touchCache, animations, pzElements,
                            observers, attachedHandlers>>

NextZoom ==
  \/ \E c \in Containers : Zoom_attachToElement(c)
  \/ \E c \in Containers : Zoom_detachFromElement(c)
  \/ \E c \in Containers, deltaY \in WheelDeltas, mouse \in WheelPos :
       Zoom_handleWheel(c, deltaY, mouse)
  \/ \E c \in Containers : Zoom_handleDoubleClick(c)
  \/ \E c \in Containers : Zoom_handleResize(c)

SpecZoom == Init /\ [][NextZoom]_vars

\* both engines attached to the same container: pen strokes, wheel zooms and
\* presentation toggles between repeated attach calls
NextAttach ==
  \/ \E c \in Main : _attachToElement(c)
  \/ \E tool \in TwoTools : activateTool(tool)
  \/ \E c \in Main, ptr \in StylePointers, pos \in DownPos : handlePointerDown(c, ptr, pos)
  \/ \E c \in Main, ptr \in StylePointers, pos \in Pos : handlePointerMove(c, ptr, pos)
  \/ \E c \in Main, ptr \in StylePointers, t \in StyleTimes : handlePointerUp(c, ptr, t)
  \/ \E c \in Main : Zoom_attachToElement(c)
  \/ \E c \in Main, deltaY \in WheelDeltas, mouse \in WheelPos :
       Zoom_handleWheel(c, deltaY, mouse)
  \/ \E c \in Main : Zoom_handleDoubleClick(c)

SpecAttach == Init /\ [][NextAttach]_vars

\* upper bounds given to the constructor
MaxZooms == {Whole(1), MaxZoom}

\* pinching on its own: an engine constructed with or without panning and
\* with one of two upper bounds, touch events on one container
InitPinch ==
  /\ PenInit
  /\ \E maxZoom \in MaxZooms, disablePan \in BOOLEAN :
       ZoomInitWith([DefaultZoomOptions EXCEPT !.maxZoom = maxZoom,
                                               !.disablePan = disablePan],
                    PlainContainer.center)

NextPinch ==
  \/ \E c \in Main : Zoom_attachToElement(c)
  \/ \E c \in Main, touches \in TouchLists : Zoom_handleTouchStart(c, touches)
  \/ \E c \in Main, touches \in TouchLists : Zoom_handleTouchMove(c, touches)
  \/ \E c \in Main : Zoom_handleTouchEnd(c)

SpecPinch == InitPinch /\ [][NextPinch]_vars

\* snap-back: the bounds are changed at run time, pinches about a fixed
\* midpoint, wheel zooms and presentation toggles go on while animation
\* frames run and time passes
\* bounds given to setMinZoom and setMaxZoom
RaisedMinZooms == {Whole(2)}
LoweredMaxZooms == {Whole(1)}
SnapStart == <<Touch(1, 100, 10), Touch(2, 200, 10)>>
SnapMove == <<Touch(1, 50, 10), Touch(2, 250, 10)>>
SnapWheelDeltas == {-500}

NextSnap ==
  \/ \E c \in Main : Zoom_attachToElement(c)
  \/ \E c \in Main : Zoom_handleTouchStart(c, SnapStart)
  \/ \E c \in Main : Zoom_handleTouchMove(c, SnapMove)
  \/ \E c \in Main : Zoom_handleTouchEnd(c)
  \/ \E c \in Main, deltaY \in SnapWheelDeltas, mouse \in WheelPos :
       Zoom_handleWheel(c, deltaY, mouse)
  \/ \E c \in Main : Zoom_handleDoubleClick(c)
  \/ \E zoom \in RaisedMinZooms : setMinZoom(zoom)
  \/ \E zoom \in LoweredMaxZooms : setMaxZoom(zoom)
  \/ \E i \in 1..MaxAnimations : Zoom_animate(i)
  \/ \E dt \in TickSteps : Tick(dt)

SpecSnap == Init /\ [][NextSnap]_vars

\* the same with time that advances while an animation waits for it and
\* with every requested animation frame delivered
SpecSnapFair ==
  /\ SpecSnap
  /\ WF_vars(\E dt \in TickSteps : Tick(dt))
  /\ \A i \in 1..MaxAnimations : WF_vars(Zoom_animate(i))

\* presentation mode and reset: two containers are zoomed by the wheel, put
\* into presentation mode by double-clicks and taken out of it by the ESC key,
\* resized and reset, while animation frames run and time passes
NextReset ==
  \/ \E c \in Containers : Zoom_attachToElement(c)
  \/ \E c \in Containers, deltaY \in SnapWheelDeltas, mouse \in WheelPos :
       Zoom_handleWheel(c, deltaY, mouse)
  \/ \E c \in Containers : Zoom_handleDoubleClick(c)
  \/ \E c \in Containers : Zoom_handleResize(c)
  \/ \E key \in Keys : Zoom_handleEscKey(key)
  \/ \E c \in Containers : Zoom_resetElement(c)
  \/ \E i \in 1..MaxAnimations : Zoom_animate(i)
  \/ \E dt \in TickSteps : Tick(dt)

SpecReset == Init /\ [][NextReset]_vars

\* both engines on two containers: one of them is attached, detached,
\* cleared and reset in any order, also before its first attach and after a
\* detach, while the pen draws on the other one
NextUnattached ==
  \/ \E c \in Containers : _attachToElement(c)
  \/ \E c \in Touched : _detachFromElement(c)
  \/ \E c \in Touched : _clearElement(c)
  \/ \E tool \in TwoTools : activateTool(tool)
  \/ \E c \in Main, ptr \in StylePointers, pos \in DownPos : handlePointerDown(c, ptr, pos)
  \/ \E c \in Main, ptr \in StylePointers, pos \in LifePos : handlePointerMove(c, ptr, pos)
  \/ \E c \in Main, ptr \in StylePointers, t \in StyleTimes : handlePointerUp(c, ptr, t)
  \/ \E c \in Containers : Zoom_attachToElement(c)
  \/ \E c \in Touched : Zoom_detachFromElement(c)
  \/ \E c \in Touched : Zoom_resetElement(c)
  \/ \E i \in 1..MaxAnimations : Zoom_animate(i)
  \/ Tick(AnimationDuration)

SpecUnattached == Init /\ [][NextUnattached]_vars

\* wheel zooming on its own: an engine constructed with or without panning
\* and with one of two upper bounds, the zoomed child centred somewhere in its
\* container, wheel events at the corner and inside
Centers == {<<0, 0>>, <<20, 10>>}
FineWheelDeltas == WheelDeltas \cup {-100}
FineWheelPos == WheelPos \cup {<<9, 4>>}

InitWheel ==
  /\ PenInit
  /\ \E maxZoom \in MaxZooms, disablePan \in BOOLEAN, center \in Centers :
       ZoomInitWith([DefaultZoomOptions EXCEPT !.maxZoom = maxZoom,
                                               !.disablePan = disablePan],
                    center)

NextWheel ==
  \/ \E c \in Main : Zoom_attachToElement(c)
  \/ \E c \in Main, deltaY \in FineWheelDeltas, mouse \in FineWheelPos :
       Zoom_handleWheel(c, deltaY, mouse)

SpecWheel == InitWheel /\ [][NextWheel]_vars

\* ------------------------------------------------ smoothing on its own
\* _generatePathData applied to every point list of up to MaxLen points
MaxLen == 4
PathPos == {<<0, 0>>, <<1, 2>>, <<3, 1>>}

RECURSIVE SeqsUpTo(_, _)
SeqsUpTo(S, n) ==
  IF n = 0 THEN {<<>>}
  ELSE LET shorter == SeqsUpTo(S, n - 1) IN
       shorter \cup {Append(q, x) : q \in {r \in shorter : Len(r) = n - 1}, x \in S}

InitPath ==
  /\ elements = <<"A">>
  /\ activeElement = "A"
  /\ isDrawing = TRUE
  /\ activeTool = "pen"
  /\ points \in SeqsUpTo(PathPos, MaxLen)
  /\ paths = <<<<>>>>
  /\ drawingGroups = <<"A">>
  /\ activePointerId = 1
  /\ touchCount = 0
  /\ dom = [c \in Containers |-> EmptyLayer]
  /\ downL = [c \in Containers |-> TRUE]
  /\ moveL = [c \in Containers |-> TRUE]
  /\ ev = "ok"
  /\ options = DefaultOptions
  /\ fingers = 0
  /\ ZoomInit

\* const pathData = this._generatePathData(this.points), kept with its input
GeneratePath ==
  /\ paths[1] = <<>>
  /\ paths' = [paths EXCEPT ![1] = <<[type |-> activeTool,
                                     pathData |-> _generatePathData(points),
                                     points |-> points]>>]
  /\ ev' = "ok"
  /\ UNCHANGED <<pz, fingers, options, elements, activeElement, isDrawing, activeTool, points,
                 drawingGroups, activePointerId, touchCount, dom, downL, moveL>>

NextPath == GeneratePath

SpecPath == InitPath /\ [][NextPath]_vars

\* =================================================================== claims
Records == UNION {{paths[k][i] : i \in 1..Len(paths[k])} : k \in DOMAIN paths}

Attached == {c \in Containers : Includes(elements, c)}

TempMaskIn(defs) == HasMaskId(defs, TempMaskId)

\* no live-preview primitive is left in the layer
NoPreview(layer) ==
  /\ ~HasClass(layer.kids, "temp-path")
  /\ ~TempMaskIn(layer.defs)
  /\ ~HasEraserPath(layer.defs)
  /\ layer.mask = NoMask

\* C1: while Drawing with owner p on a container, a pointer-down from another
\* pointer q on that container (tool active, at most one touch) changes
\* neither the point sequence nor the owner and starts no second stroke.
C1_MutualExclusion ==
  [][\A c \in Containers, q \in Pointers, pos \in DownPos :
       (/\ isDrawing /\ activeElement = c /\ q # activePointerId
        /\ activeTool # NoTool /\ touchCount <= 1
        /\ handlePointerDown(c, q, pos))
       => (points' = points /\ activePointerId' = activePointerId)]_vars

\* the three cancellation triggers of the stroke engine
CancelEvent ==
  \/ \E c \in Containers, n \in TouchCounts : n > 1 /\ handleTouchStart(c, n)
  \/ \E c \in Containers, n \in TouchCounts : handleTouchCancel(c, n)
  \/ \E c \in Containers, pos \in Pos :
       touchCount > 1 /\ handlePointerMove(c, activePointerId, pos)

\* C2: a multi-touch touch-start, a touch-cancel or an owner move seen with
\* more than one touch active returns the engine from Drawing to Idle and
\* appends no StrokeRecord, whatever the number of accumulated points.
C2_CancelCommitsNothing ==
  [][(isDrawing /\ CancelEvent)
       => (/\ ~isDrawing' /\ activePointerId' = NoPointer /\ points' = <<>>
           /\ paths' = paths)]_vars

C2_Witness ==
  /\ ev = "cancel"
  /\ ~isDrawing /\ points = <<>> /\ touchCount > 1

\* C3: after a stroke is cancelled no container holds a temp preview
\* primitive: no temp path, no temporary eraser mask or eraser path, and the
\* drawing layer is not gated by the temporary mask.
C3_CancelDiscardsPreview ==
  ev = "cancel" => \A c \in Attached : NoPreview(dom[c])

\* a pointerup / pointercancel / pointerleave of the owner pointer in Drawing
OwnerRelease ==
  /\ isDrawing
  /\ \E c \in Containers, t \in Times : handlePointerUp(c, activePointerId, t)

C5_ReleaseLeavesNoPreview ==
  ev \in {"commit", "release"}
    => /\ activePointerId = NoPointer /\ points = <<>> /\ ~isDrawing
       /\ \A c \in Attached : NoPreview(dom[c])

\* the distance test of the claim, on squared distances
AtLeastMinDistance(p, q) ==
  (p[1] - q[1]) * (p[1] - q[1]) + (p[2] - q[2]) * (p[2] - q[2])
    >= MinDistance * MinDistance

\* a pointermove of the owner pointer to pos in Drawing
OwnerMove(pos) ==
  /\ isDrawing /\ points # <<>>
  /\ \E c \in Containers : handlePointerMove(c, activePointerId, pos)

\* C6 as stated: in Drawing an owner move nearer than minDistance to the
\* last stored point leaves the points and the rendering unchanged, a move
\* at minDistance or farther appends exactly that point.
C6_Decimation ==
  [][\A pos \in Pos :
       OwnerMove(pos)
       => IF AtLeastMinDistance(pos, points[Len(points)])
          THEN points' = Append(points, pos)
          ELSE points' = points /\ dom' = dom]_vars

\* C6 amended: the same, for moves seen while at most one touch is active
\* (with more touches the move cancels the stroke).
C6_DecimationSingleTouch ==
  [][\A pos \in Pos :
       (OwnerMove(pos) /\ touchCount <= 1)
       => IF AtLeastMinDistance(pos, points[Len(points)])
          THEN points' = Append(points, pos)
          ELSE points' = points /\ dom' = dom]_vars

C6_Witness ==
  /\ ev = "accept" /\ isDrawing /\ touchCount <= 1
  /\ Len(points) >= 2
  /\ AtLeastMinDistance(points[Len(points)], points[Len(points) - 1])

\* the path data the claim prescribes for the points P, with coordinates
\* doubled as in the model: move-to P[1], one quadratic per interior point
\* (control that point, end the midpoint to its successor), line-to the last
SmoothedAsClaimed(P, d) ==
  LET n == Len(P) IN
  IF n < 2 THEN d = <<>>
  ELSE /\ Len(d) = n
       /\ d[1] = <<"M", 2 * P[1][1], 2 * P[1][2]>>
       /\ \A i \in 2..(n - 1) :
            d[i] = <<"Q", 2 * P[i][1], 2 * P[i][2],
                     P[i][1] + P[i + 1][1], P[i][2] + P[i + 1][2]>>
       /\ d[n] = <<"L", 2 * P[n][1], 2 * P[n][2]>>

\* C7: the path computed for a point list P[0..n-1] with n >= 2 is: move-to
\* P[0]; for i = 1..n-2 a quadratic with control P[i] ending at the midpoint
\* of P[i] and P[i+1]; line-to P[n-1]. For n < 2 it is empty.
C7_PathSmoothing ==
  \A r \in Records : SmoothedAsClaimed(r.points, r.pathData)

C7_Witness ==
  \E r \in Records :
    /\ Len(r.points) = 4
    /\ r.points[2] # r.points[3]
    /\ r.pathData[2][1] = "Q" /\ r.pathData[3][1] = "Q"

\* pen active, down at p0 and one accepted move to p1, then the owner's
\* pointer-up (at p1) on the attached active container
PenTwoPointRelease ==
  /\ OwnerRelease
  /\ activeTool = "pen"
  /\ Len(points) = 2
  /\ Includes(elements, activeElement)

\* C8 as stated: that release commits one record with the 3 points
\* p0, p1, p1 (the release position stored last), its path starting M p0.
C8_ReleasePointStored ==
  [][PenTwoPointRelease
       => \E r \in [type : {"pen"}, pathData : {_generatePathData(<<points[1], points[2], points[2]>>)},
                    points : {<<points[1], points[2], points[2]>>}] :
            /\ paths' = [paths EXCEPT ![IndexOf(elements, activeElement)] = Append(@, r)]
            /\ r.pathData[1] = <<"M", 2 * points[1][1], 2 * points[1][2]>>]_vars

\* C8 amended: that release commits one record with the 2 points p0, p1
\* accumulated by the down and the move, and the path M p0 L p1; the release
\* position is not stored.
C8_ReleasePointNotStored ==
  [][PenTwoPointRelease
       => paths' = [paths EXCEPT ![IndexOf(elements, activeElement)] =
                      Append(@, [type |-> "pen",
                                 pathData |-> << <<"M", 2 * points[1][1], 2 * points[1][2]>>,
                                                 <<"L", 2 * points[2][1], 2 * points[2][2]>> >>,
                                 points |-> <<points[1], points[2]>>])]]_vars

C8_Witness ==
  /\ ev = "commit"
  /\ \E k \in DOMAIN paths :
       /\ paths[k] # <<>>
       /\ paths[k][Len(paths[k])].type = "pen"
       /\ Len(paths[k][Len(paths[k])].points) = 2

\* C9: right after clear(container) the container's collection is empty and
\* its layer holds no stroke primitive, no mask-wrapper group and no mask
\* resource, permanent or temporary.
C9_ClearRemovesEverything ==
  ev = "clear"
    => \A c \in Attached :
         /\ paths[IndexOf(elements, c)] = <<>>
         /\ dom[c].kids = <<>>
         /\ dom[c].defs = <<>>
         /\ dom[c].mask = NoMask

\* number of records of the given tool in a collection
RECURSIVE CountType(_, _)
CountType(recs, tool) ==
  IF recs = <<>> THEN 0
  ELSE (IF Head(recs).type = tool THEN 1 ELSE 0) + CountType(Tail(recs), tool)

\* the mask-wrapper groups are nested one inside the other
RECURSIVE Nested(_)
Nested(kids) ==
  /\ Cardinality({i \in 1..Len(kids) : kids[i].t = "g"}) <= 1
  /\ \A i \in 1..Len(kids) : kids[i].t = "g" => Nested(kids[i].kids)

\* C10: an attached container on which N eraser strokes were committed since
\* attach or the last clear has exactly N mask-wrapper groups in its drawing
\* layer, nested one inside the other; right after an eraser commit the one
\* new wrapper is the only child of the layer and holds everything else.
C10_NestedWrappers ==
  \A c \in Attached :
    LET recs == paths[IndexOf(elements, c)]
        kids == dom[c].kids
    IN /\ WrapperCount(kids) = CountType(recs, "eraser")
       /\ Nested(kids)
       /\ (ev = "commit" /\ recs # <<>> /\ recs[Len(recs)].type = "eraser")
            => (Len(kids) = 1 /\ kids[1].t = "g")

C10_Witness ==
  \E c \in Attached :
    /\ CountType(paths[IndexOf(elements, c)], "eraser") = 2
    /\ WrapperCount(dom[c].kids) = 2
    /\ dom[c].kids[1].t = "g"
    /\ \E i \in 1..Len(dom[c].kids[1].kids) : dom[c].kids[1].kids[i].t = "g"

\* the committed content of a drawing group: its elements without the live
\* preview, each reduced to its kind, path data and children
RECURSIVE Committed(_)
Committed(kids) ==
  IF kids = <<>> THEN <<>>
  ELSE LET h == Head(kids) IN
       IF h.cls = "temp-path" THEN Committed(Tail(kids))
       ELSE <<[t |-> h.t, d |-> h.d, kids |-> Committed(h.kids)]>>
            \o Committed(Tail(kids))

\* the layout the ordering policy prescribes for a sequence of commits: a
\* stroke goes on top of what is there; an erase then wraps all of it
RECURSIVE Layout(_)
Layout(recs) ==
  IF recs = <<>> THEN <<>>
  ELSE LET n == Len(recs)
           below == Layout(SubSeq(recs, 1, n - 1))
           on == Append(below, [t |-> "path", d |-> recs[n].pathData, kids |-> <<>>])
       IN IF recs[n].type = "eraser"
          THEN << [t |-> "g", d |-> <<>>, kids |-> on] >>
          ELSE on

\* C11: everything that is in a drawing layer when an eraser stroke is
\* committed lies inside that erase's wrapper group, and every stroke
\* committed later lies outside it, to be wrapped only by later erases: the
\* committed content of each attached layer is the layout of its records.
C11_EraseOrdering ==
  \A c \in Attached :
    Committed(dom[c].kids) = Layout(paths[IndexOf(elements, c)])

C11_Witness ==
  \E c \in Attached :
    LET recs == paths[IndexOf(elements, c)]
        kids == dom[c].kids
    IN /\ Len(recs) = 2 /\ recs[1].type = "eraser" /\ recs[2].type = "pen"
       /\ Len(kids) = 2 /\ kids[1].t = "g" /\ kids[1].kids # <<>>
       /\ kids[2].cls = "vector-pen-stroke"

\* the committed stroke elements below a list of siblings, in document order
RECURSIVE StrokeElements(_)
StrokeElements(kids) ==
  IF kids = <<>> THEN <<>>
  ELSE LET h == Head(kids) IN
       (IF h.cls = "vector-pen-stroke" THEN <<h>> ELSE <<>>)
       \o StrokeElements(h.kids) \o StrokeElements(Tail(kids))

IsPrefix(a, b) == Len(a) <= Len(b) /\ SubSeq(b, 1, Len(a)) = a

\* number of permanent mask resources in a defs list
PermanentMasks(defs) == Cardinality({i \in 1..Len(defs) : defs[i].id # TempMaskId})

\* the owner's release of an eraser stroke of at least 2 points on the
\* attached active container
EraserCommit ==
  /\ activeTool = "eraser"
  /\ Len(points) >= 2
  /\ Includes(elements, activeElement)
  /\ OwnerRelease

\* C12: an eraser commit removes no committed stroke element (each is still
\* in the layer, inside the one new wrapper), changes no existing record,
\* appends exactly one record of kind eraser and creates one mask resource
\* and one wrapper group.
C12_EraseNonDestructive ==
  [][EraserCommit
       => LET k == IndexOf(elements, activeElement)
              old == dom[activeElement]
              new == dom'[activeElement]
          IN /\ Len(new.kids) = 1 /\ new.kids[1].t = "g"
             /\ IsPrefix(StrokeElements(old.kids), StrokeElements(new.kids[1].kids))
             /\ WrapperCount(new.kids) = WrapperCount(old.kids) + 1
             /\ PermanentMasks(new.defs) = PermanentMasks(old.defs) + 1
             /\ DOMAIN paths' = DOMAIN paths
             /\ \A j \in DOMAIN paths : j # k => paths'[j] = paths[j]
             /\ Len(paths'[k]) = Len(paths[k]) + 1
             /\ SubSeq(paths'[k], 1, Len(paths[k])) = paths[k]
             /\ paths'[k][Len(paths'[k])].type = "eraser"]_vars

C12_Witness ==
  /\ ev = "commit"
  /\ \E c \in Attached :
       LET recs == paths[IndexOf(elements, c)]
           kids == dom[c].kids
       IN /\ Len(recs) = 2 /\ recs[1].type = "pen" /\ recs[2].type = "eraser"
          /\ Len(kids) = 1 /\ kids[1].t = "g"
          /\ kids[1].kids # <<>>
          /\ kids[1].kids[1].cls = "vector-pen-stroke"
          /\ kids[1].kids[1].d = recs[1].pathData
          /\ PermanentMasks(dom[c].defs) = 1

\* C13: the masks of the wrapper groups have pairwise different ids, across
\* all layers, also for two eraser commits that read the same millisecond.
C13_DistinctMaskIds ==
  \A c \in Containers, e \in Containers :
    \A i \in 1..Len(dom[c].defs), j \in 1..Len(dom[e].defs) :
      (c # e \/ i # j) /\ dom[c].defs[i].id # TempMaskId
        => dom[c].defs[i].id # dom[e].defs[j].id

\* number of committed stroke elements in all layers
TotalStrokes(dm) ==
  SumOver([c \in Containers |-> Len(StrokeElements(dm[c].kids))], Containers)

\* C19: while no tool is active (from deactivateTool or a toggle-off until the
\* next activation) no step appends a record to a collection, adds a
\* committed stroke element or adds a mask resource, also when the tool was
\* deactivated in the middle of a stroke.
C19_NoDrawingWithoutTool ==
  [][activeTool = NoTool /\ activeTool' = NoTool
       => /\ \A k \in DOMAIN paths' :
               k \in DOMAIN paths => Len(paths'[k]) <= Len(paths[k])
          /\ TotalStrokes(dom') <= TotalStrokes(dom)
          /\ TotalMasks(dom') <= TotalMasks(dom)]_vars

\* C18: activateTool(k) with k the active tool leaves no tool active, with
\* another or no active tool it makes k the active tool, deactivateTool()
\* leaves no tool active; and while no tool is active a pointer-down on an
\* attached container starts no stroke.
C18_ToolToggle ==
  [][/\ \A tool \in Tools :
          activateTool(tool)
            => activeTool' = (IF activeTool = tool THEN NoTool ELSE tool)
     /\ DeactivateTool => activeTool' = NoTool
     /\ \A c \in Attached :
          activeTool = NoTool
          /\ (\E ptr \in Pointers, pos \in DownPos : handlePointerDown(c, ptr, pos))
            => UNCHANGED <<isDrawing, points, activePointerId>>]_vars

\* a pointer or touch event delivered to container c
EventOn(c) ==
  \/ \E n \in TouchCounts : handleTouchStart(c, n)
  \/ \E n \in TouchCounts : handleTouchEnd(c, n)
  \/ \E n \in TouchCounts : handleTouchCancel(c, n)
  \/ \E ptr \in Pointers, pos \in DownPos : handlePointerDown(c, ptr, pos)
  \/ \E ptr \in Pointers, pos \in Pos : handlePointerMove(c, ptr, pos)
  \/ \E ptr \in Pointers, t \in Times : handlePointerUp(c, ptr, t)

\* C15: a detached container has no drawing surface and no collection, and
\* no pointer or touch event delivered to it changes the active container,
\* the owner pointer, the drawing flag, the points or the touch count, also
\* when a tool was active at the detach.
C15_DetachReversesAttach ==
  [][\A c \in Containers \ Attached :
       /\ dom[c] = EmptyLayer
       /\ EventOn(c)
            => UNCHANGED <<activeElement, activePointerId, isDrawing, points,
                           touchCount>>]_vars

\* querySelector('.cls') below a list of siblings: the first match, if any
RECURSIVE FirstOf(_, _)
FirstOf(kids, cls) ==
  IF kids = <<>> THEN <<>>
  ELSE LET h == Head(kids) IN
       IF h.cls = cls THEN <<h>>
       ELSE IF FirstOf(h.kids, cls) # <<>> THEN FirstOf(h.kids, cls)
       ELSE FirstOf(Tail(kids), cls)

\* the owner's release of a pen stroke that has a live preview
PenCommit ==
  /\ activeTool = "pen"
  /\ Len(points) >= 2
  /\ Includes(elements, activeElement)
  /\ FirstOf(dom[activeElement].kids, "temp-path") # <<>>
  /\ OwnerRelease

SetStyle ==
  \/ \E color \in Colors : setColor(color)
  \/ \E width \in StrokeWidths : setStrokeWidth(width)
  \/ \E width \in EraserWidths : setEraserWidth(width)

\* C20: a style setter changes no layer and no record, and the element a pen
\* stroke commits carries the colour and width of that stroke's live preview
\* (those in effect when the stroke began), whatever setter ran during it.
C20_StyleOnNextStroke ==
  [][/\ SetStyle => dom' = dom /\ paths' = paths
     /\ PenCommit
          => LET preview == FirstOf(dom[activeElement].kids, "temp-path")[1]
                 shown == StrokeElements(dom'[activeElement].kids)
                 committed == shown[Len(shown)]
             IN /\ committed.stroke = preview.stroke
                /\ committed.width = preview.width]_vars

\* C17: while a stroke is in progress on an attached container a, no pointer
\* or touch event delivered to another attached container b changes the
\* active container, the points, the owner pointer or the drawing flag, and
\* a release changes the collection and the layer of no container other
\* than the active one.
C17_NoCrossContainerMutation ==
  [][\A a \in Attached, b \in Attached :
       a # b /\ isDrawing /\ activeElement = a
         => /\ EventOn(b)
                 => UNCHANGED <<activeElement, points, activePointerId, isDrawing>>
            /\ OwnerRelease
                 => /\ dom'[b] = dom[b]
                    /\ paths'[IndexOf(elements, b)] = paths[IndexOf(elements, b)]]_vars

\* a wheel, double-click or resize event delivered to container c
ZoomEventOn(c) ==
  \/ \E deltaY \in WheelDeltas, mouse \in WheelPos : Zoom_handleWheel(c, deltaY, mouse)
  \/ Zoom_handleDoubleClick(c)
  \/ Zoom_handleResize(c)

\* C16: once a container is detached from PinchZoom every child of it has
\* its transform cleared, no resize observer created for it is connected,
\* and no wheel, double-click or resize event on it changes the markup,
\* mutates a state or dispatches a notification.
C16_ZoomDetachReversesAttach ==
  [][\A c \in Containers :
       ~Includes(pzElements, c)
         => /\ \A i \in 1..Children : zdom[c].kids[i].transform = NoTransform
            /\ Connected(c, "obs", Len(closures)) = <<>>
            /\ ZoomEventOn(c)
                 => zdom' = zdom /\ closures' = closures /\ notes' = <<>>]_vars

\* C14: attach on a container that is already attached changes nothing, in
\* the stroke engine (surface, listeners, observer, collection and rendered
\* strokes are kept) and in the zoom engine (listeners, observer, scale,
\* offset and presentation flag are kept).
C14_AttachIdempotent ==
  [][\A c \in Containers :
       /\ Includes(elements, c) /\ _attachToElement(c) => UNCHANGED vars
       /\ Includes(pzElements, c) /\ Zoom_attachToElement(c) => UNCHANGED vars]_vars

C14_Witness ==
  \E c \in Containers :
    /\ Includes(elements, c) /\ Includes(pzElements, c)
    /\ paths[IndexOf(elements, c)] # <<>>
    /\ StrokeElements(dom[c].kids) # <<>>
    /\ closures[attachedHandlers[c]].state.scale # Whole(1)
    /\ closures[attachedHandlers[c]].state.isPresentation
    /\ zdom[c].kids[Children].transform = Transform(closures[attachedHandlers[c]].state)

\* C21: in Drawing, a pointer-move, pointer-up, pointer-cancel or
\* pointer-leave of a pointer other than the owner changes nothing: points,
\* owner, drawing flag, layers (preview included) and collections.
C21_ForeignPointerIgnored ==
  [][isDrawing
       => \A c \in Containers, ptr \in Pointers \ {activePointerId} :
            (\/ \E pos \in Pos : handlePointerMove(c, ptr, pos)
             \/ \E t \in Times : handlePointerUp(c, ptr, t))
              => UNCHANGED <<points, activePointerId, isDrawing, dom, paths>>]_vars

C21_Witness ==
  /\ isDrawing
  /\ activePointerId = 1
  /\ Len(points) >= 2
  /\ Includes(elements, activeElement)
  /\ moveL[activeElement]
  /\ HasClass(dom[activeElement].kids, "temp-path")
  /\ paths[IndexOf(elements, activeElement)] # <<>>

\* C22: a pointer-down that arrives while more than one touch is active
\* leaves the owner pointer, the active container, the drawing flag, the
\* points and the move/up listeners unchanged.
C22_DownIgnoredOnMultiTouch ==
  [][touchCount > 1
     /\ (\E c \in Containers, ptr \in Pointers, pos \in DownPos :
           handlePointerDown(c, ptr, pos))
       => UNCHANGED <<activePointerId, activeElement, isDrawing, points, moveL>>]_vars

C22_Witness ==
  /\ touchCount > 1
  /\ activeTool # NoTool
  /\ ~isDrawing
  /\ ev = "cancel"
  /\ \E c \in Attached : downL[c]

\* the closure that handles the wheel and touch events of container c
Handling(c) == Connected(c, "touch", Len(closures))[1]

\* scale * (1 - deltaY * speedFactor) held between the configured bounds
WheelScale(scale, deltaY) ==
  LET raw == QMul(scale, QSub(Whole(1), QMul(Whole(deltaY), SpeedFactor)))
  IN IF QLess(raw, zoomOptions.minZoom) THEN zoomOptions.minZoom
     ELSE IF QLess(zoomOptions.maxZoom, raw) THEN zoomOptions.maxZoom
     ELSE raw

\* the zoomed children of container c show the state st
Shows(zd, c, st) ==
  \A i \in 1..Children : zd[c].kids[i].zoomEl => zd[c].kids[i].transform = Transform(st)

\* C29: a wheel event sets the scale to clamp(scale * (1 - deltaY *
\* speedFactor), minZoom, maxZoom), a function of the current scale and the
\* event alone, and applies the transform at once; deltaY = -100 at speed
\* factor 0.002 and scale 1 gives min(maxZoom, 1.2); with panning disabled
\* the offset is unchanged.
C29_WheelScale ==
  [][\A c \in Containers, deltaY \in FineWheelDeltas, mouse \in FineWheelPos :
       Zoom_handleWheel(c, deltaY, mouse)
         => LET old == closures[Handling(c)].state
                new == closures'[Handling(c)].state
            IN /\ new.scale = WheelScale(old.scale, deltaY)
               /\ Shows(zdom', c, new)
               /\ (deltaY = -100 /\ old.scale = Whole(1) /\ SpeedFactor = Q(2, 1000))
                    => new.scale = QMin(zoomOptions.maxZoom, Q(12, 10))
               /\ zoomOptions.disablePan
                    => new.offsetX = old.offsetX /\ new.offsetY = old.offsetY]_vars

C29_Witness ==
  \E c \in Containers :
    /\ Connected(c, "touch", Len(closures)) # <<>>
    /\ closures[Handling(c)].state.scale = Q(12, 10)
    /\ zoomOptions.disablePan
    /\ notes = <<PinchZoomNote(closures[Handling(c)].state)>>
    /\ \E i \in 1..Children :
         /\ zdom[c].kids[i].zoomEl
         /\ zdom[c].kids[i].transform = Transform(closures[Handling(c)].state)

\* under translate(offset) scale(scale) about the centre, the content point
\* shown at the cursor (mouse, along one axis) with old offset and scale is
\* shown there with the new ones:
\*   (mouse - center - offset) / scale = (mouse - center - newOffset) / newScale
Anchored(mouse, center, scale, offset, newScale, newOffset) ==
  QMul(newScale, QSub(Whole(mouse - center), offset))
    = QMul(scale, QSub(Whole(mouse - center), newOffset))

\* C30: with panning enabled a wheel zoom keeps the content point under the
\* cursor under the cursor, whatever the ratio of old to new scale, and
\* leaves the offset unchanged when the new scale equals the old one.
C30_WheelAnchorsCursor ==
  [][\A c \in Containers, deltaY \in FineWheelDeltas, mouse \in FineWheelPos :
       (~zoomOptions.disablePan /\ Zoom_handleWheel(c, deltaY, mouse))
         => LET old == closures[Handling(c)].state
                new == closures'[Handling(c)].state
            IN /\ Anchored(mouse[1], zdom[c].center[1], old.scale, old.offsetX,
                           new.scale, new.offsetX)
               /\ Anchored(mouse[2], zdom[c].center[2], old.scale, old.offsetY,
                           new.scale, new.offsetY)
               /\ new.scale = old.scale
                    => new.offsetX = old.offsetX /\ new.offsetY = old.offsetY]_vars

\* the touch of a touch list that carries the identifier id
TouchOf(touches, id) == CHOOSE t \in {touches[i] : i \in 1..Len(touches)} : t.id = id

HasTouch(touches, id) == \E i \in 1..Len(touches) : touches[i].id = id

\* a touchmove on c whose touches hold both cached identifiers
MoveOfCachedPair(c, touches) ==
  /\ Len(touches) >= 2
  /\ touchCache # NoCache
  /\ HasTouch(touches, touchCache.touch1.id)
  /\ HasTouch(touches, touchCache.touch2.id)
  /\ Zoom_handleTouchMove(c, touches)

Between(lo, x, hi) == IF QLess(x, lo) THEN lo ELSE IF QLess(hi, x) THEN hi ELSE x

\* C24: a touch-move holding both cached identifiers sets the scale to
\* clamp(baseline scale * current distance / initial distance, minZoom,
\* maxZoom), from the baseline stored at the touch-start and not from the
\* scale the previous move left; with panning enabled the offset becomes
\* baseline offset + (current midpoint - initial midpoint) / new scale, with
\* panning disabled it is unchanged; 100 -> 200 at baseline 1 gives
\* min(maxZoom, 2).
C24_PinchFromBaseline ==
  [][\A c \in Containers, touches \in TouchLists :
       MoveOfCachedPair(c, touches)
         => LET old == closures[Handling(c)].state
                new == closures'[Handling(c)].state
                t1 == TouchOf(touches, touchCache.touch1.id)
                t2 == TouchOf(touches, touchCache.touch2.id)
                dist == Sqrt((t2.x - t1.x) * (t2.x - t1.x) + (t2.y - t1.y) * (t2.y - t1.y))
                newScale == Between(zoomOptions.minZoom,
                                    QDiv(QMul(old.initialScale, Whole(dist)),
                                         touchCache.initialDistance),
                                    zoomOptions.maxZoom)
                midX == Q(t1.x + t2.x, 2)
                midY == Q(t1.y + t2.y, 2)
            IN /\ new.scale = newScale
               /\ new.initialScale = old.initialScale
               /\ IF zoomOptions.disablePan
                  THEN new.offsetX = old.offsetX /\ new.offsetY = old.offsetY
                  ELSE /\ new.offsetX = QAdd(old.initialOffsetX,
                                             QDiv(QSub(midX, touchCache.initialMidpoint.x), newScale))
                       /\ new.offsetY = QAdd(old.initialOffsetY,
                                             QDiv(QSub(midY, touchCache.initialMidpoint.y), newScale))
               /\ (old.initialScale = Whole(1) /\ touchCache.initialDistance = Whole(100)
                     /\ dist = 200)
                    => new.scale = QMin(zoomOptions.maxZoom, Whole(2))]_vars

\* a second move of the same pinch: the scale differs from the baseline, the
\* pan moved the content
C24_Witness ==
  \E c \in Containers :
    /\ Connected(c, "touch", Len(closures)) # <<>>
    /\ touchCache # NoCache
    /\ touchCache.initialDistance = Whole(200)
    /\ LET st == closures[Handling(c)].state
       IN /\ st.initialScale = Whole(2)
          /\ st.scale = Whole(1)
          /\ st.offsetX # st.initialOffsetX
          /\ notes = <<PinchZoomNote(st)>>

\* the baseline snapshot of a pinch state
Baseline(st) == <<st.initialScale, st.initialOffsetX, st.initialOffsetY>>

\* C25: a touch-start with one touch or with three or more touches leaves
\* the baseline snapshot of the container and the touch-pair cache
\* unchanged; only a touch-start with exactly two touches (re)baselines.
C25_BaselineOnlyOnTwoTouches ==
  [][\A c \in Containers, touches \in TouchLists :
       (Len(touches) # 2 /\ Zoom_handleTouchStart(c, touches))
         => /\ touchCache' = touchCache
            /\ Baseline(closures'[Handling(c)].state)
                 = Baseline(closures[Handling(c)].state)]_vars

\* C26: with a populated cache, a touch-move of two or more touches that
\* lacks one of the cached identifiers changes no scale and no offset,
\* applies no transform, emits no notification and raises no error; the
\* identifiers are looked up wherever they stand in the touch list.
C26_MoveWithoutCachedTouchSkipped ==
  [][\A c \in Containers, touches \in TouchLists :
       (/\ Len(touches) >= 2
        /\ touchCache # NoCache
        /\ ~(HasTouch(touches, touchCache.touch1.id) /\ HasTouch(touches, touchCache.touch2.id))
        /\ Zoom_handleTouchMove(c, touches))
         => UNCHANGED <<closures, zdom, notes, threw, touchCache>>]_vars

\* a pinch of fingers 1 and 2 that a move has scaled, where a move holding
\* fingers 1 and 3 can arrive
C26_Witness ==
  \E c \in Containers :
    /\ Connected(c, "touch", Len(closures)) # <<>>
    /\ touchCache # NoCache
    /\ touchCache.touch1.id = 1 /\ touchCache.touch2.id = 2
    /\ touchCache.initialDistance = Whole(100)
    /\ closures[Handling(c)].state.scale = QMin(zoomOptions.maxZoom, Whole(2))
    /\ closures[Handling(c)].state.initialScale = Whole(1)
    /\ zoomOptions.maxZoom = MaxZoom
    /\ notes # <<>>
    /\ ~threw

\* C27: every touch-end or touch-cancel leaves the touch-pair cache empty,
\* and a touch-move of two or more touches that arrives while the cache is
\* empty (after a touch-end, or before any two-finger touch-start) changes
\* nothing and raises no error.
C27_MoveOnEmptyCacheIgnored ==
  [][\A c \in Containers :
       /\ Zoom_handleTouchEnd(c) => touchCache' = NoCache
       /\ \A touches \in TouchLists :
            (Len(touches) >= 2 /\ touchCache = NoCache /\ Zoom_handleTouchMove(c, touches))
              => ~threw' /\ UNCHANGED <<closures, zdom, touchCache>>]_vars

\* no _animateToScale loop waits for a frame
NoAnimationInFlight == \A i \in DOMAIN animations : ~animations[i].pending

\* C23: whenever no pinch is in progress and no snap-back animation is in
\* flight, the scale of every attached container lies in [minZoom, maxZoom],
\* whatever bounds were configured and whatever pinch, wheel, toggle,
\* setMinZoom / setMaxZoom, touch-end and animation-frame steps were taken.
C23_ScaleWithinBounds ==
  (touchCache = NoCache /\ NoAnimationInFlight)
    => \A c \in Containers :
         Connected(c, "touch", Len(closures)) # <<>>
           => /\ ~QLess(closures[Handling(c)].state.scale, zoomOptions.minZoom)
              /\ ~QLess(zoomOptions.maxZoom, closures[Handling(c)].state.scale)

\* animation i has been started and waits for a frame
InFlight(i) == i \in DOMAIN animations /\ animations[i].pending

\* animation i has run its last frame
Finished(i) == i \in DOMAIN animations /\ ~animations[i].pending

\* a touch-end on c that finds the scale outside the bounds starts one
\* animation from that scale to the bound it passed
StartsSnapBack(c) ==
  LET scale == closures[Handling(c)].state.scale
      below == QLess(scale, zoomOptions.minZoom)
      above == QLess(zoomOptions.maxZoom, scale)
  IN (below \/ above)
       => /\ Len(animations') = Len(animations) + 1
          /\ SubSeq(animations', 1, Len(animations)) = animations
          /\ LET a == animations'[Len(animations')]
             IN /\ a.g = Handling(c)
                /\ a.startScale = scale
                /\ a.targetScale = (IF below THEN zoomOptions.minZoom ELSE zoomOptions.maxZoom)
                /\ a.pending

\* a frame of animation i sets the scale to start + (target - start) * p *
\* (2 - p) with p = min(elapsed / duration, 1) and asks for another frame
\* exactly when p < 1
FrameOf(i) ==
  LET a == animations[i]
      p == IF a.elapsed >= AnimationDuration THEN Whole(1)
           ELSE Q(a.elapsed, AnimationDuration)
      scale == closures'[a.g].state.scale
  IN /\ scale = QAdd(a.startScale,
                     QMul(QSub(a.targetScale, a.startScale), QMul(p, QSub(Whole(2), p))))
     /\ animations'[i].pending = QLess(p, Whole(1))
     /\ p = Whole(1) => scale = a.targetScale /\ Finished(i)'

\* C28: a touch-end that finds the scale outside [minZoom, maxZoom] starts a
\* snap-back to the bound it passed; each frame sets scale = start + (target
\* - start) * p * (2 - p) with p = min(elapsed / duration, 1); the frame with
\* p = 1 sets the scale to the target and schedules no further frame, and
\* with time advancing and every requested frame delivered each animation
\* reaches that frame, also while pinch, wheel and toggle events interleave.
C28_SnapBackTerminates ==
  /\ [][/\ \A c \in Containers : Zoom_handleTouchEnd(c) => StartsSnapBack(c)
        /\ \A i \in 1..MaxAnimations :
             /\ Zoom_animate(i) => FrameOf(i)
             /\ Finished(i) => Finished(i)']_vars
  /\ \A i \in 1..MaxAnimations : InFlight(i) ~> Finished(i)

\* a snap-back that ran its last frame and left the scale at its target,
\* the raised lower bound
C28_Witness ==
  /\ Finished(1)
  /\ \E c \in Containers :
       /\ Connected(c, "touch", Len(closures)) # <<>>
       /\ zoomOptions.minZoom = Whole(2)
       /\ closures[Handling(c)].state.scale = zoomOptions.minZoom
       /\ notes = <<PinchZoomNote(closures[Handling(c)].state)>>

\* the notifications of the given name in a list of notifications
RECURSIVE Named(_, _)
Named(ns, name) ==
  IF ns = <<>> THEN <<>>
  ELSE (IF Head(ns)[1] = name THEN <<Head(ns)>> ELSE <<>>) \o Named(Tail(ns), name)

\* C31: a double-click on an attached container, presentation enabled,
\* flips isPresentation of the container's state, sets its scale to 1 and its
\* offset to (0, 0), applies the transform and emits exactly one
\* presentationmodechange notification, which carries the new isPresentation.
C31_PresentationToggle ==
  [][\A c \in Containers :
       (/\ Includes(pzElements, c)
        /\ attachedHandlers[c] # NoClosure
        /\ Zoom_handleDoubleClick(c))
         => LET old == closures[attachedHandlers[c]].state
                new == closures'[attachedHandlers[c]].state
            IN /\ new.isPresentation = ~old.isPresentation
               /\ new.scale = Whole(1)
               /\ new.offsetX = Whole(0) /\ new.offsetY = Whole(0)
               /\ Shows(zdom', c, new)
               /\ zdom'[c].presentation = new.isPresentation
               /\ Named(notes', "presentationmodechange")
                    = <<PresentationNote(new)>>]_vars

\* the GestureState of an attached container
GestureState(c) == closures[attachedHandlers[c]].state

\* C32: an ESC key event takes every attached container that was in
\* presentation mode out of it, with scale 1, offset (0,0) and a
\* presentationmodechange notification, and leaves the other containers as
\* they were
C32_EscExitsPresentation ==
  [][Zoom_handleEscKey("Escape")
       => \A c \in Containers :
            (Includes(pzElements, c) /\ attachedHandlers[c] # NoClosure)
              => IF GestureState(c).isPresentation
                 THEN /\ ~GestureState(c)'.isPresentation
                      /\ GestureState(c)'.scale = Whole(1)
                      /\ GestureState(c)'.offsetX = Whole(0)
                      /\ GestureState(c)'.offsetY = Whole(0)
                      /\ Named(notes', "presentationmodechange") # <<>>
                 ELSE GestureState(c)' = GestureState(c)]_vars

\* the handler runs on container c that apply a transform
AppliesTransform(c) ==
  \/ Zoom_attachToElement(c)
  \/ \E deltaY \in SnapWheelDeltas, mouse \in WheelPos : Zoom_handleWheel(c, deltaY, mouse)
  \/ Zoom_handleDoubleClick(c)
  \/ Zoom_handleResize(c)
  \/ Zoom_resetElement(c)
  \/ \E i \in 1..Len(animations) : animations[i].el = c /\ Zoom_animate(i)

\* C33: every transform application on a container (attach, wheel,
\* presentation toggle, resize, each frame of a snap-back or reset animation)
\* emits exactly one pinchzoom notification, and its scale, offsetX, offsetY
\* and isPresentation are those of the container's GestureState at that
\* moment; on a presentation toggle it comes before the
\* presentationmodechange notification and carries the new isPresentation
C33_TransformChangedCarriesState ==
  [][\A c \in Containers :
       (attachedHandlers'[c] # NoClosure /\ AppliesTransform(c))
         => /\ Named(notes', "pinchzoom") = <<PinchZoomNote(GestureState(c)')>>
            /\ Zoom_handleDoubleClick(c)
                 => notes' = <<PinchZoomNote(GestureState(c)'),
                               PresentationNote(GestureState(c)')>>]_vars

\* animation i was started by reset(c) and this step is its last frame
LastResetFrame(i, c) ==
  /\ i <= Len(animations)
  /\ animations[i].pending
  /\ animations[i].g = NoClosure
  /\ animations[i].el = c
  /\ Zoom_animate(i)
  /\ animations'[i] = Ended

\* C39: when the animation started by reset(c) on an attached container has
\* finished, the GestureState of c has scale 1 and offset (0,0) and is the
\* rendered transform, so that the next wheel or pinch starts from scale 1
C39_ResetResetsState ==
  [][\A c \in Containers, i \in 1..MaxAnimations :
       (attachedHandlers[c] # NoClosure /\ LastResetFrame(i, c))
         => /\ GestureState(c)'.scale = Whole(1)
            /\ GestureState(c)'.offsetX = Whole(0)
            /\ GestureState(c)'.offsetY = Whole(0)
            /\ Shows(zdom', c, GestureState(c)')]_vars

\* C35: every stored StrokeRecord has the tool kind pen or eraser, also when
\* its stroke was released after the tool had been deactivated or switched
C35_RecordKindIsTool ==
  \A k \in DOMAIN paths : \A i \in 1..Len(paths[k]) : paths[k][i].type \in Tools

\* number of the records of a kind in a collection
RECURSIVE KindCount(_, _)
KindCount(recs, kind) ==
  IF recs = <<>> THEN 0
  ELSE (IF Head(recs).type = kind THEN 1 ELSE 0) + KindCount(Tail(recs), kind)

\* C37: an eraser commit adds no pen-stroke primitive: the number of
\* vector-pen-stroke primitives in the drawing layer of an attached container
\* is the number of the pen records in its collection
C37_PenPrimitivesArePenRecords ==
  \A c \in Containers :
    (Includes(elements, c) /\ HasKey(KeyOf(c)))
      => ClassCount(dom[c].kids, "vector-pen-stroke") = KindCount(paths[KeyOf(c)], "pen")

\* a pointer-down on container c that starts a stroke there, its points
\* seeded with the down position
StartsStroke(c) ==
  \E ptr \in StylePointers, pos \in DownPos :
    /\ handlePointerDown(c, ptr, pos)
    /\ isDrawing' /\ activeElement' = c /\ activePointerId' = ptr
    /\ points' = <<pos>>

\* C36: while a tool is active and at most one touch is active, a
\* pointer-down on any attached container starts a stroke, also on a
\* container that was attached after the tool was activated
C36_DownStartsStrokeWhereAttached ==
  \A c \in Containers :
    (/\ activeTool # NoTool
     /\ touchCount <= 1 /\ fingers <= 1
     /\ Includes(elements, c))
      => ENABLED StartsStroke(c)

\* C40: multi-touch rejection never locks drawing out: whenever no touch
\* point is on the screen, a tool is active and no stroke is in progress, a
\* pointer-down on an attached container that listens to pointer-downs starts
\* a stroke, also after the container that received the multi-touch
\* touch-start was detached before its touches lifted
C40_NoLockOutAfterMultiTouch ==
  \A c \in Containers :
    (/\ fingers = 0
     /\ activeTool # NoTool
     /\ ~isDrawing
     /\ Includes(elements, c) /\ downL[c])
      => ENABLED StartsStroke(c)

\* the collection and the layer the engine reaches for container c
Reachable(els, ps, dg, c) ==
  LET k == IndexOf(els, c)
  IN IF k \in DOMAIN ps /\ k \in DOMAIN dg
     THEN [records |-> ps[k], layer |-> dg[k]]
     ELSE [records |-> Stale, layer |-> Stale]

\* C38: for id-less containers attached and detached in any order, an
\* attached container keeps its own reachable collection and layer: detaching
\* or attaching another container leaves its records as they were, and a
\* commit or clear on it raises no error and acts on its own layer
C38_AttachedKeepsOwnCollection ==
  [][\A x \in Containers :
       (Includes(elements, x) /\ Includes(elements', x))
         => /\ (\E y \in Containers \ {x} : _detachFromElement(y) \/ _attachToElement(y))
                 => /\ Reachable(elements', paths', drawingGroups', x).layer = x
                    /\ Reachable(elements', paths', drawingGroups', x).records
                         = Reachable(elements, paths, drawingGroups, x).records
            /\ ((activeElement = x /\ \E ptr \in StylePointers, t \in StyleTimes :
                                        handlePointerUp(x, ptr, t))
                \/ _clearElement(x))
                 => /\ ev' # "throw"
                    /\ Reachable(elements', paths', drawingGroups', x).layer = x]_vars

====
